---- MODULE Spec2Model ----
(***************************************************************************)
(* A model of the elfkit ELF container (src/src/elf.rs, src/src/section.rs) *)
(* of the demand loader (src/src/loader.rs) and of the linker driver       *)
(* (src/bin/ld.rs).                                                         *)
(*                                                                          *)
(* Section indices are 0-based as in the source; the TLA+ sequence that     *)
(* models Vec<Section> is 1-based, so the section at index i is secs[i+1].  *)
(***************************************************************************)
EXTENDS Integers, Sequences, FiniteSets, TLC

VARIABLES
    sections,   \* Elf.sections : Vec<Section>
    header,     \* Elf.header (the fields the container operations read or write)
    start,      \* history: the container as it was constructed
    pre,        \* history: the container before the last structural edit
    ops,        \* history: the structural edits applied so far, in order
    sync_pc,    \* position of Elf::sync_all: "idle", "loop", "done", "error"
    dirty,      \* sync_all: the dirty queue being filled (`dirty`)
    batch,      \* sync_all: the queue taken by mem::replace, still to be iterated
    sync_hist,  \* history of one sync_all call: sections synced, string tables grown
    load_pc,    \* position of Elf::load / load_all: "idle", "load", "load_all", "ok", "error"
    load_stack, \* Elf::load: the frames of the pending calls, each with its `sec`
    load_next,  \* load_all: the loop variable i
    ld_needles, \* load_if: the needle set
    ld_handler, \* load_if: the error handler `e`
    ld_stack,   \* load_if: loader states whose load_if call is pending
    ld_out,     \* load_if: the states returned so far
    ld_last,    \* history: the last contains/load evaluation of load_if or load
    link_pc,    \* ld.rs: the stage the linker driver has completed
    segments,   \* Elf.segments : Vec<SegmentHeader>
    collector,  \* SimpleCollector: sections (OrderMap), relocs, symtab; collect's input_map
    out_file,   \* the output of Elf::to_writer: its result and the sections written
    link_hist   \* history: inputs and results of the linker driver's last call

editVars   == <<sections, header, start, pre, ops>>
loadVars   == <<load_pc, load_stack, load_next>>
syncVars   == <<sync_pc, dirty, batch, sync_hist, load_pc, load_stack, load_next>>
loaderVars == <<ld_needles, ld_handler, ld_stack, ld_out, ld_last>>
linkVars   == <<link_pc, segments, collector, out_file, link_hist>>
vars       == <<sections, header, start, pre, ops, sync_pc, dirty, batch, sync_hist,
                load_pc, load_stack, load_next,
                ld_needles, ld_handler, ld_stack, ld_out, ld_last,
                link_pc, segments, collector, out_file, link_hist>>

-----------------------------------------------------------------------------
(* Bounds *)

\* number of sections of a freshly constructed container (null section included)
NumSecs == 3
\* number of structural edits applied to one container
MaxOps  == 2

-----------------------------------------------------------------------------
(* Sections *)

\* SectionContent::None, the Default of SectionContent
ContentNone == [kind |-> "None", len |-> 0, syms |-> <<>>, strs |-> <<>>, rels |-> <<>>,
     bytes |-> <<>>, dyn |-> <<>>]

\* Section::new: the header fields it does not take are zero; hname is
\* SectionHeader.name, the offset of the name in .shstrtab
NewSection(name, shtype, flags, content, link, info) ==
    [name |-> name, hname |-> 0, shtype |-> shtype, flags |-> flags,
     addr |-> 0, offset |-> 0, size |-> 0, link |-> link, info |-> info,
     addralign |-> 0, entsize |-> 0, content |-> content]

\* Section::default()
DefaultSection == NewSection("", "NULL", {}, ContentNone, 0, 0)

\* the section at 0-based index i
At(secs, i) == secs[i + 1]

HasInfoLink(sec) == "INFO_LINK" \in sec.flags

-----------------------------------------------------------------------------
(* Structural edits: Elf::remove_section, insert_section, move_section *)

\* the sentinel move_section writes into references to the moved section
MoveSentinel == 999999

\* Vec::remove(at)
VecRemove(secs, at) ==
    [i \in 1..(Len(secs) - 1) |-> IF i <= at THEN secs[i] ELSE secs[i + 1]]

\* Vec::insert(at, sec)
VecInsert(secs, at, sec) ==
    [i \in 1..(Len(secs) + 1) |->
        IF i <= at THEN secs[i] ELSE IF i = at + 1 THEN sec ELSE secs[i - 1]]

\* mutant of RemoveFix: references above the removed index are not shifted down
RemoveFixNoShift(sec, at) ==
    LET l == IF sec.link = at THEN 0 ELSE sec.link
        n == IF HasInfoLink(sec) /\ sec.info = at THEN 0 ELSE sec.info
    IN  [sec EXCEPT !.link = l, !.info = n]

\* the body of remove_section's loop, for one remaining section
RemoveFix(sec, at) ==
    LET l == IF sec.link = at THEN 0
             ELSE IF sec.link > at THEN sec.link - 1 ELSE sec.link
        n == IF HasInfoLink(sec)
             THEN IF sec.info = at THEN 0
                  ELSE IF sec.info > at THEN sec.info - 1 ELSE sec.info
             ELSE sec.info
    IN  [sec EXCEPT !.link = l, !.info = n]

\* Elf::remove_section(at): the container afterwards (the removed section is
\* VecRemove's result r = At(secs, at), returned untouched)
RemoveSection(secs, at) ==
    LET rest == VecRemove(secs, at)
    IN  [i \in 1..Len(rest) |-> RemoveFix(rest[i], at)]

\* the body of insert_section's loop, for one section of the container
\* (the inserted one included): link uses >=, info uses >
InsertFix(sec, at) ==
    LET l == IF sec.link >= at THEN sec.link + 1 ELSE sec.link
        n == IF HasInfoLink(sec) /\ sec.info > at THEN sec.info + 1 ELSE sec.info
    IN  [sec EXCEPT !.link = l, !.info = n]

\* Elf::insert_section(at, sec)
InsertSection(secs, at, sec) ==
    LET all == VecInsert(secs, at, sec)
    IN  [i \in 1..Len(all) |-> InsertFix(all[i], at)]

\* move_section: replace references to `from` by the sentinel
MarkMoved(sec, from) ==
    LET l == IF sec.link = from THEN MoveSentinel ELSE sec.link
        n == IF HasInfoLink(sec) /\ sec.info = from THEN MoveSentinel ELSE sec.info
    IN  [sec EXCEPT !.link = l, !.info = n]

\* move_section: replace the sentinel by the final index
UnmarkMoved(sec, to) ==
    LET l == IF sec.link = MoveSentinel THEN to ELSE sec.link
        n == IF HasInfoLink(sec) /\ sec.info = MoveSentinel THEN to ELSE sec.info
    IN  [sec EXCEPT !.link = l, !.info = n]

\* Elf::move_section(from, to)
MoveSection(secs, from, to) ==
    IF to = from THEN secs
    ELSE LET to2     == IF to > from THEN to - 1 ELSE to
             marked  == [i \in 1..Len(secs) |-> MarkMoved(secs[i], from)]
             moved   == At(marked, from)
             removed == RemoveSection(marked, from)
             put     == InsertSection(removed, to2, moved)
         IN  [i \in 1..Len(put) |-> UnmarkMoved(put[i], to2)]

-----------------------------------------------------------------------------
(* The container under structural edits *)

SecNames == <<"", ".text", ".data", ".bss", ".rodata", ".init">>
NewNames == <<".dynstr", ".hash", ".dynsym", ".rela.dyn">>

NoSyncHist == [synced |-> {}, grown |-> {}]
IdleLoad   == load_pc = "idle" /\ load_stack = <<>> /\ load_next = 0
IdleSync   == /\ sync_pc = "idle" /\ dirty = <<>> /\ batch = <<>> /\ sync_hist = NoSyncHist
              /\ IdleLoad
NoLast     == [op |-> "none", seq |-> 0, arg |-> "none", loaded |-> FALSE, res |-> <<>>]
IdleLoader == /\ ld_needles = {} /\ ld_handler = "none" /\ ld_stack = <<>>
              /\ ld_out = <<>> /\ ld_last = NoLast
\* the output file: the result of the write, the section contents written
\* (name, offset, length) and the section header table
NoWritten  == [res |-> "none", pieces |-> {}, headers |-> <<>>]
\* SimpleCollector {sections, relocs, symtab}, with collect's input_map and the
\* part of linker.symtab that belongs to the objects merged so far
NoCollector == [sections |-> <<>>, relocs |-> <<>>, symtab |-> <<>>, input_map |-> <<>>,
                linker |-> <<>>]
\* what the linker driver did: the last call, the calls made so far in order,
\* and the arguments and results of the last call
NoLinkHist == [op |-> "none", stages |-> <<>>, call |-> <<>>]
IdleLink   == /\ link_pc = "idle" /\ segments = <<>> /\ collector = NoCollector
              /\ out_file = NoWritten /\ link_hist = NoLinkHist

\* containers as Elf::from_reader builds them: a null section followed by
\* sections whose link, info and INFO_LINK flag hold whatever the file held
EditContainers ==
    LET Choice == [link : 0..(NumSecs - 1), info : 0..(NumSecs - 1),
                   flags : {{}, {"INFO_LINK"}}]
        Fill   == [1..(NumSecs - 1) -> Choice]
    IN  { [i \in 1..NumSecs |->
             IF i = 1 THEN DefaultSection
             ELSE NewSection(SecNames[i], "PROGBITS", f[i - 1].flags,
                             ContentNone, f[i - 1].link, f[i - 1].info)]
          : f \in Fill }

DefaultHeader ==
    [shstrndx |-> 0, class |-> "Class64", entry |-> 0,
     phoff |-> 0, phnum |-> 0, phentsize |-> 0,
     shoff |-> 0, shnum |-> 0, shentsize |-> 0, ehsize |-> 0]

EditInit ==
    /\ sections \in EditContainers
    /\ header = DefaultHeader
    /\ start = sections
    /\ pre = sections
    /\ ops = <<>>
    /\ IdleSync
    /\ IdleLoader
    /\ IdleLink

Edited(op, a, b, secs) ==
    /\ Len(ops) < MaxOps
    /\ sync_pc = "idle"
    /\ pre' = sections
    /\ sections' = secs
    /\ ops' = Append(ops, [op |-> op, a |-> a, b |-> b])
    /\ UNCHANGED <<header, start>>
    /\ UNCHANGED syncVars
    /\ UNCHANGED loaderVars
    /\ UNCHANGED linkVars

\* elf.remove_section(at); Vec::remove panics unless at < len
Remove ==
    \E at \in 0..(Len(sections) - 1) :
        Edited("remove", at, 0, RemoveSection(sections, at))

\* elf.insert_section(at, sec); Vec::insert panics unless at <= len
Insert ==
    \E at \in 0..Len(sections), link \in 0..1 :
        Edited("insert", at, 0,
               InsertSection(sections, at,
                   NewSection(NewNames[Len(ops) + 1], "PROGBITS", {},
                              ContentNone, link, 0)))

\* elf.move_section(from, to); remove panics unless from < len, and insert
\* unless the adjusted `to` is <= len - 1
Move ==
    \E from \in 0..(Len(sections) - 1), to \in 0..Len(sections) :
        Edited("move", from, to, MoveSection(sections, from, to))

EditNext == Remove \/ Insert \/ Move

EditSpec == EditInit /\ [][EditNext]_vars

LastOp == ops[Len(ops)]

\* i is the index of a section of secs
ValidIndex(secs, i) == 0 <= i /\ i < Len(secs)

-----------------------------------------------------------------------------
(* C1..C4: cross-references under remove, insert and move *)

\* what C1 says a reference v becomes when section k is removed
AfterRemoval(v, k) == IF v = k THEN 0 ELSE IF v > k THEN v - 1 ELSE v

\* C1: remove_section(k) removes the section at index k; every remaining
\* section keeps its place in the order, its link becomes 0 when it was k,
\* link-1 when it was above k and stays when below; the same holds for info
\* of sections with INFO_LINK, and info without INFO_LINK is unchanged.
C1_RemoveRule ==
    (ops # <<>> /\ LastOp.op = "remove") =>
        LET k == LastOp.a IN
        /\ Len(sections) = Len(pre) - 1
        /\ \A j \in 0..(Len(pre) - 1) :
              j # k =>
                LET p == At(pre, j)
                    q == At(sections, IF j < k THEN j ELSE j - 1)
                IN  /\ q.name = p.name
                    /\ q.flags = p.flags
                    /\ q.link = AfterRemoval(p.link, k)
                    /\ q.info = IF HasInfoLink(p) THEN AfterRemoval(p.info, k)
                                ELSE p.info

\* a removal at k met links equal to, above and below k, an INFO_LINK info
\* above k and a plain info equal to k
C1_Witness ==
    /\ ops # <<>> /\ LastOp.op = "remove" /\ LastOp.a = 1
    /\ Len(pre) >= 3
    /\ \E j \in 0..(Len(pre) - 1) : j # 1 /\ At(pre, j).link = 1
    /\ \E j \in 0..(Len(pre) - 1) : j # 1 /\ At(pre, j).link = 2
                                     /\ HasInfoLink(At(pre, j)) /\ At(pre, j).info = 2
    /\ \E j \in 0..(Len(sections) - 1) : At(sections, j).link = 1

\* where the section at index j sits after an insertion at `at`
AfterInsertion(j, at) == IF j >= at THEN j + 1 ELSE j

\* C2 (as claimed): after insert_section(at, s) with at >= 1, every link and
\* every INFO_LINK info of a pre-existing section that referenced the section
\* at index j references the index where that section now sits.
C2_InsertKeepsReferences ==
    (ops # <<>> /\ LastOp.op = "insert" /\ LastOp.a >= 1) =>
        LET at == LastOp.a IN
        \A j \in 0..(Len(pre) - 1) :
            LET p == At(pre, j)
                q == At(sections, AfterInsertion(j, at))
            IN  /\ ValidIndex(pre, p.link) => q.link = AfterInsertion(p.link, at)
                /\ (HasInfoLink(p) /\ ValidIndex(pre, p.info))
                       => q.info = AfterInsertion(p.info, at)

\* same section order, same links, same INFO_LINK infos
Equivalent(a, b) ==
    /\ Len(a) = Len(b)
    /\ \A i \in 1..Len(a) :
          /\ a[i].name = b[i].name
          /\ a[i].flags = b[i].flags
          /\ a[i].link = b[i].link
          /\ HasInfoLink(a[i]) => a[i].info = b[i].info

\* C3 (as claimed): move_section(i, j); move_section(j-1, i) with valid
\* indices i < j leaves the container equivalent to the starting one.
C3_MoveRoundTrip ==
    (/\ Len(ops) = 2
     /\ ops[1].op = "move" /\ ops[2].op = "move"
     /\ ops[1].a < ops[1].b /\ ValidIndex(start, ops[1].b)
     /\ ops[2].a = ops[1].b - 1 /\ ops[2].b = ops[1].a)
        => Equivalent(start, sections)

\* the index of the section named n (names are unique in these containers)
IndexOf(secs, n) == CHOOSE i \in 0..(Len(secs) - 1) : At(secs, i).name = n

\* reference v of `before` and reference w of `after` name the same section
SameTarget(before, v, after, w) ==
    ValidIndex(after, w) /\ At(after, w).name = At(before, v).name

\* C4 (as claimed): after one move_section(from, to) every link and every
\* INFO_LINK info, those of the moved section included, references the same
\* logical section as before the call.
C4_MoveKeepsReferences ==
    (ops # <<>> /\ LastOp.op = "move") =>
        \A j \in 0..(Len(pre) - 1) :
            LET p == At(pre, j)
                q == At(sections, IndexOf(sections, p.name))
            IN  /\ ValidIndex(pre, p.link) => SameTarget(pre, p.link, sections, q.link)
                /\ (HasInfoLink(p) /\ ValidIndex(pre, p.info))
                       => SameTarget(pre, p.info, sections, q.info)

-----------------------------------------------------------------------------
(* Typed section contents and their sizes *)

\* the strings a string table holds, in insertion order; offset 0 is the
\* empty string, every stored string is followed by a NUL byte
RECURSIVE StrtabBytes(_)
StrtabBytes(strs) ==
    IF strs = <<>> THEN 0 ELSE Len(Head(strs)) + 1 + StrtabBytes(Tail(strs))

\* Strtab::len
StrtabLen(strs) == IF strs = <<>> THEN 0 ELSE 1 + StrtabBytes(strs)

StrtabHas(strs, s) == \E i \in 1..Len(strs) : strs[i] = s

\* Strtab::insert: the table afterwards (equal bytes are interned)
StrtabInsert(strs, s) ==
    IF s = "" \/ StrtabHas(strs, s) THEN strs ELSE Append(strs, s)

\* Strtab::insert: the offset returned
StrtabOffset(strs, s) ==
    IF s = "" THEN 0
    ELSE LET t == StrtabInsert(strs, s)
             i == CHOOSE k \in 1..Len(t) : t[k] = s
         IN  1 + StrtabBytes(SubSeq(t, 1, i - 1))

RECURSIVE StrtabInsertAll(_, _)
StrtabInsertAll(strs, names) ==
    IF names = <<>> THEN strs
    ELSE StrtabInsertAll(StrtabInsert(strs, Head(names)), Tail(names))

\* Symbol::entsize, Relocation::entsize, Dynamic::entsize, Strtab::entsize
SymbolEntsize(eh)     == IF eh.class = "Class64" THEN 24 ELSE 16
RelocationEntsize(eh) == IF eh.class = "Class64" THEN 24 ELSE 12
DynamicEntsize(eh)    == IF eh.class = "Class64" THEN 16 ELSE 8
StrtabEntsize(eh)     == 1

\* SectionContent::size (it panics on Unloaded; sync returns before that)
ContentSize(c, eh) ==
    CASE c.kind = "None"        -> 0
      [] c.kind = "Raw"         -> c.len
      [] c.kind = "Dynamic"     -> (Len(c.strs) + Len(c.dyn)) * DynamicEntsize(eh)
      [] c.kind = "Strtab"      -> StrtabLen(c.strs)
      [] c.kind = "Symbols"     -> Len(c.syms) * SymbolEntsize(eh)
      [] c.kind = "Relocations" -> c.len * RelocationEntsize(eh)

\* the record size sync stores in header.entsize for typed content
RecordSize(c, eh) ==
    CASE c.kind = "Dynamic"     -> DynamicEntsize(eh)
      [] c.kind = "Strtab"      -> StrtabEntsize(eh)
      [] c.kind = "Symbols"     -> SymbolEntsize(eh)
      [] c.kind = "Relocations" -> RelocationEntsize(eh)

Typed(c) == c.kind \in {"Dynamic", "Strtab", "Symbols", "Relocations"}

ContentRaw(n)        == [kind |-> "Raw", len |-> n, syms |-> <<>>, strs |-> <<>>, rels |-> <<>>,
     bytes |-> <<>>, dyn |-> <<>>]
ContentRelocs(n)     == [kind |-> "Relocations", len |-> n, syms |-> <<>>, strs |-> <<>>, rels |-> <<>>,
     bytes |-> <<>>, dyn |-> <<>>]
ContentSymbols(syms) == [kind |-> "Symbols", len |-> 0, syms |-> syms, strs |-> <<>>, rels |-> <<>>,
     bytes |-> <<>>, dyn |-> <<>>]
ContentDynamic(strs) == [kind |-> "Dynamic", len |-> 0, syms |-> <<>>, strs |-> strs, rels |-> <<>>,
     bytes |-> <<>>, dyn |-> <<>>]
ContentStrtab(strs)  == [kind |-> "Strtab", len |-> 0, syms |-> <<>>, strs |-> strs, rels |-> <<>>,
     bytes |-> <<>>, dyn |-> <<>>]

\* linked == None
NoLinked == [kind |-> "NoLinked", len |-> 0, syms |-> <<>>, strs |-> <<>>, rels |-> <<>>,
     bytes |-> <<>>, dyn |-> <<>>]

\* the strings the records of a Symbols or Dynamic section write into the
\* linked string table when they are synced
RecordStrings(c) ==
    IF c.kind = "Symbols" THEN [i \in 1..Len(c.syms) |-> c.syms[i].name]
    ELSE c.strs

\* index of the first GLOBAL symbol, or -1
FirstGlobal(syms) ==
    IF \E i \in 1..Len(syms) : syms[i].bind = "GLOBAL"
    THEN (CHOOSE i \in 1..Len(syms) :
             /\ syms[i].bind = "GLOBAL"
             /\ \A k \in 1..(i - 1) : syms[k].bind # "GLOBAL") - 1
    ELSE -1

\* Symbol::sync / Dynamic::sync over all records of a section: the outcomes
\* for the linked content. With a linked Strtab every record's string is
\* inserted; without one nothing can be written and the record's sync either
\* does nothing or fails.
RecordsSync(c, linked) ==
    IF RecordStrings(c) = <<>> THEN {[err |-> FALSE, linked |-> linked]}
    ELSE IF linked.kind = "Strtab"
    THEN {[err |-> FALSE,
           linked |-> [linked EXCEPT !.strs = StrtabInsertAll(@, RecordStrings(c))]]}
    ELSE {[err |-> FALSE, linked |-> linked], [err |-> TRUE, linked |-> linked]}

\* Section::sync, last step: header.size of a section that is not NOBITS
SizeAfterSync(sec, eh) ==
    IF sec.shtype # "NOBITS" THEN ContentSize(sec.content, eh) ELSE sec.size

\* Section::sync(eh, linked): the set of outcomes [err, sec, linked]
SectionSync(sec, eh, linked) ==
    LET c == sec.content IN
    IF c.kind = "Unloaded"
    THEN {[err |-> TRUE, sec |-> sec, linked |-> linked]}
    ELSE IF c.kind \in {"Symbols", "Dynamic"}
    THEN LET withInfo == IF c.kind = "Symbols" /\ FirstGlobal(c.syms) >= 0
                         THEN [sec EXCEPT !.info = FirstGlobal(c.syms)]
                         ELSE sec
             withEnt  == [withInfo EXCEPT !.entsize = RecordSize(c, eh)]
         IN  { IF r.err THEN [err |-> TRUE, sec |-> withInfo, linked |-> r.linked]
               ELSE [err |-> FALSE,
                     sec |-> [withEnt EXCEPT !.size = SizeAfterSync(withEnt, eh)],
                     linked |-> r.linked]
               : r \in RecordsSync(c, linked) }
    ELSE LET withEnt == IF Typed(c) THEN [sec EXCEPT !.entsize = RecordSize(c, eh)]
                        ELSE sec
         IN  {[err |-> FALSE,
               sec |-> [withEnt EXCEPT !.size = SizeAfterSync(withEnt, eh)],
               linked |-> linked]}

-----------------------------------------------------------------------------
(* Elf::sync_all *)

\* index of the first section named .shstrtab, or -1
ShstrtabPosition(secs) ==
    IF \E i \in 0..(Len(secs) - 1) : At(secs, i).name = ".shstrtab"
    THEN CHOOSE i \in 0..(Len(secs) - 1) :
            /\ At(secs, i).name = ".shstrtab"
            /\ \A k \in 0..(i - 1) : At(secs, k).name # ".shstrtab"
    ELSE -1

\* the .shstrtab table after the names of secs[1..n] were inserted in order
RECURSIVE NamesInserted(_, _, _)
NamesInserted(strs, secs, n) ==
    IF n = 0 THEN strs
    ELSE StrtabInsert(NamesInserted(strs, secs, n - 1), secs[n].name)

\* sync_all, first part: every section's header.name becomes the offset of its
\* name in .shstrtab, and .shstrtab holds all the names
SyncNames(secs, i) ==
    LET strs == At(secs, i).content.strs
    IN  [k \in 1..Len(secs) |->
            LET named == [secs[k] EXCEPT
                            !.hname = StrtabOffset(NamesInserted(strs, secs, k - 1),
                                                   secs[k].name)]
            IN  IF k = i + 1
                THEN [named EXCEPT !.content.strs = NamesInserted(strs, secs, Len(secs))]
                ELSE named]

\* sync_all up to the dirty loop; as_strtab_mut().unwrap() panics when the
\* section named .shstrtab holds no Strtab
SyncStart ==
    /\ sync_pc = "idle"
    /\ LET i == ShstrtabPosition(sections) IN
       IF i >= 0 /\ At(sections, i).content.kind # "Strtab"
       THEN /\ sync_pc' = "panic"
            /\ header' = [header EXCEPT !.shstrndx = i]
            /\ sections' = [sections EXCEPT ![i + 1].content = ContentNone]
            /\ UNCHANGED <<dirty, batch>>
       ELSE /\ sync_pc' = "loop"
            /\ header' = IF i >= 0 THEN [header EXCEPT !.shstrndx = i] ELSE header
            /\ sections' = IF i >= 0 THEN SyncNames(sections, i) ELSE sections
            /\ dirty' = [k \in 1..Len(sections) |-> k - 1]
            /\ batch' = <<>>
    /\ sync_hist' = NoSyncHist
    /\ UNCHANGED <<start, pre, ops>>
    /\ UNCHANGED loadVars
    /\ UNCHANGED loaderVars
    /\ UNCHANGED linkVars

\* sec.header.link names another section of the container
HasLinked(sec, len) == ~(sec.link < 1 \/ sec.link >= len)

\* mutant of DirtyPush: the linked section is not queued again
DirtyPushNone(queue, sec, len) == queue

\* sync_all: the linked section is queued for another sync
DirtyPush(queue, sec, len) ==
    IF HasLinked(sec, len) THEN Append(queue, sec.link) ELSE queue

\* `while dirty.len() > 0`: take the queue for the next pass, or return Ok
SyncRound ==
    /\ sync_pc = "loop"
    /\ batch = <<>>
    /\ IF dirty = <<>>
       THEN sync_pc' = "done" /\ UNCHANGED <<dirty, batch>>
       ELSE sync_pc' = "loop" /\ batch' = dirty /\ dirty' = <<>>
    /\ UNCHANGED <<sections, header, start, pre, ops, sync_hist>>
    /\ UNCHANGED loadVars
    /\ UNCHANGED loaderVars
    /\ UNCHANGED linkVars

\* one iteration of the for loop: section i is taken out (a default section
\* stands in its place), synced against its linked section's content and put
\* back; on an error the call returns and the default section stays
SyncOne ==
    /\ sync_pc = "loop"
    /\ batch # <<>>
    /\ LET i      == Head(batch)
           sec    == At(sections, i)
           holed  == [sections EXCEPT ![i + 1] = DefaultSection]
           has    == HasLinked(sec, Len(sections))
           linked == IF has THEN At(holed, sec.link).content ELSE NoLinked
       IN  \E r \in SectionSync(sec, header, linked) :
             LET written == IF has THEN [holed EXCEPT ![sec.link + 1].content = r.linked]
                            ELSE holed
             IN  /\ dirty' = DirtyPush(dirty, sec, Len(sections))
                 /\ batch' = Tail(batch)
                 /\ sections' = IF r.err THEN written
                                ELSE [written EXCEPT ![i + 1] = r.sec]
                 /\ sync_pc' = IF r.err THEN "error" ELSE "loop"
                 /\ sync_hist' =
                       [synced |-> sync_hist.synced \cup {i},
                        grown  |-> sync_hist.grown \cup
                                   (IF has /\ r.linked # linked
                                       /\ sec.link \in sync_hist.synced
                                    THEN {sec.link} ELSE {})]
    /\ UNCHANGED <<header, start, pre, ops>>
    /\ UNCHANGED loadVars
    /\ UNCHANGED loaderVars
    /\ UNCHANGED linkVars

\* the sections a container is built from, by kind; size and entsize hold
\* values set before the call
PresetSize == 7

SyncKinds == {"Strtab", "Shstrtab", "Symbols", "Dynamic", "Relocations", "Raw", "Nobits"}

KindSection(kind, link) ==
    LET made ==
        CASE kind = "Strtab"      -> NewSection(".strtab", "STRTAB", {}, ContentStrtab(<<>>), link, 0)
          [] kind = "Shstrtab"    -> NewSection(".shstrtab", "STRTAB", {}, ContentStrtab(<<>>), link, 0)
          [] kind = "Symbols"     -> NewSection(".symtab", "SYMTAB", {},
                                        ContentSymbols(<<[name |-> "", bind |-> "LOCAL"],
                                                         [name |-> "main", bind |-> "GLOBAL"]>>),
                                        link, 0)
          [] kind = "Dynamic"     -> NewSection(".dynamic", "DYNAMIC", {"ALLOC"},
                                        ContentDynamic(<<"libc.so">>), link, 0)
          [] kind = "Relocations" -> NewSection(".rela.text", "RELA", {}, ContentRelocs(2), link, 0)
          [] kind = "Raw"         -> NewSection(".text", "PROGBITS", {"ALLOC"}, ContentRaw(5), link, 0)
          [] kind = "Nobits"      -> NewSection(".bss", "NOBITS", {"ALLOC"}, ContentNone, link, 0)
    IN  [made EXCEPT !.size = PresetSize, !.entsize = PresetSize]

\* number of sections of a container that is synced (null section included)
NumSyncSecs == 3

\* loaded containers: a null section, then sections of any kind in any order
\* with any link, an index past the end included
SyncContainers ==
    LET Fill == [1..(NumSyncSecs - 1) -> SyncKinds \X (0..NumSyncSecs)]
    IN  { [i \in 1..NumSyncSecs |->
             IF i = 1 THEN DefaultSection
             ELSE KindSection(f[i - 1][1], f[i - 1][2])]
          : f \in Fill }

SyncInit ==
    /\ sections \in SyncContainers
    /\ header = DefaultHeader
    /\ start = sections
    /\ pre = sections
    /\ ops = <<>>
    /\ IdleSync
    /\ IdleLoader
    /\ IdleLink

SyncNext == SyncStart \/ SyncRound \/ SyncOne

SyncSpec == SyncInit /\ [][SyncNext]_vars

\* sync_all runs to its end once called: no step of it waits for anything
SyncFairSpec == SyncSpec /\ WF_vars(SyncNext)

-----------------------------------------------------------------------------
(* C5, C6: sync_all *)

Loaded(secs) == \A i \in 1..Len(secs) : secs[i].content.kind # "Unloaded"

\* C5 (as claimed): sync_all on a container whose sections are all loaded
\* returns, whatever the link fields hold.
C5_SyncTerminates ==
    Loaded(sections) => <>(sync_pc \in {"done", "error", "panic"})

\* C6: when sync_all has returned Ok, every section that is not NOBITS has
\* header.size equal to the byte size of its content, and every section with
\* typed content has header.entsize equal to the record size of that content;
\* string tables that grew after their own first sync are included.
C6_SizesDerived ==
    sync_pc = "done" =>
        \A i \in 1..Len(sections) :
            LET sec == sections[i] IN
            /\ sec.shtype # "NOBITS" => sec.size = ContentSize(sec.content, header)
            /\ Typed(sec.content) => sec.entsize = RecordSize(sec.content, header)

\* sync_all returned Ok after a string table grew behind its own first sync,
\* and that table's size is no longer the one of its first sync
C6_Witness ==
    /\ sync_pc = "done"
    /\ \E i \in sync_hist.grown :
          /\ At(sections, i).content.kind = "Strtab"
          /\ At(sections, i).size = StrtabLen(At(sections, i).content.strs)
          /\ At(sections, i).size > StrtabLen(At(start, i).content.strs)
          /\ At(sections, i).size # PresetSize
    /\ \E i \in 1..Len(sections) : sections[i].content.kind = "Symbols"
                                   /\ sections[i].entsize = 24

-----------------------------------------------------------------------------
(* The loader's Bloom filter (loader.rs, BloomFilter) *)

\* width of the modelled hash values: FnvHasher yields 64 bits; the model
\* keeps the low HashBits bits of every step (xor and multiplication commute
\* with that truncation)
HashBits == 16
HashMod  == 2 ^ HashBits

\* the two FnvHasher keys and the FNV prime, truncated to HashBits bits
FnvKey1  == 8997
FnvKey2  == 61440
FnvPrime == 435

RECURSIVE Xor(_, _)
Xor(a, b) ==
    IF a = 0 THEN b
    ELSE IF b = 0 THEN a
    ELSE (((a % 2) + (b % 2)) % 2) + 2 * Xor(a \div 2, b \div 2)

\* FnvHasher::write: FNV-1a over the bytes fed
RECURSIVE Fnv(_, _)
Fnv(h, bytes) ==
    IF bytes = <<>> THEN h
    ELSE Fnv((Xor(h, Head(bytes)) * FnvPrime) % HashMod, Tail(bytes))

\* the bytes of the symbol names the model uses
Bytes(n) ==
    CASE n = "foo" -> <<102, 111, 111>>
      [] n = "bar" -> <<98, 97, 114>>
      [] n = "baz" -> <<98, 97, 122>>
      [] n = "f"   -> <<102>>
      [] n = ""    -> <<>>

\* <[u8] as Hash>::hash feeds the length as a usize, then the bytes
HashInput(n) == <<Len(Bytes(n)), 0, 0, 0, 0, 0, 0, 0>> \o Bytes(n)

\* the symbol names the model's object files and needles use
AllNames == {"foo", "bar", "baz", "f", ""}

\* the two keyed FNV hashes of every name, computed once
HashTable ==
    [n \in AllNames |-> <<Fnv(FnvKey1, HashInput(n)), Fnv(FnvKey2, HashInput(n))>>]

\* BloomFilter::hash
BloomHash(n) == HashTable[n]

\* BloomFilter::needed_bits(0.001, num_items): round(n * ln(1000) / ln(2)^2)
NeededBits(num_items) == (num_items * 1437759 + 50000) \div 100000

\* BloomFilter::new
BloomNew(num_items) == [len |-> NeededBits(num_items), bits |-> {}]

NoBloom == [len |-> 0, bits |-> {}]

\* mutant of BloomInsert: only the first hash sets a bit
BloomInsertFirstOnly(b, nh) == [b EXCEPT !.bits = @ \cup {(nh[1] % b.len)}]

\* BloomFilter::insert
BloomInsert(b, nh) == [b EXCEPT !.bits = @ \cup {(nh[1] % b.len), (nh[2] % b.len)}]

\* BloomFilter::contains
BloomContains(b, nh) == (nh[1] % b.len) \in b.bits /\ (nh[2] % b.len) \in b.bits

-----------------------------------------------------------------------------
(* Input files of the loader *)

Sym(name, bind, shndx) == [name |-> name, bind |-> bind, shndx |-> shndx]

\* an ELF image: its sections (type and symbols) and whether reading it
\* fails: "bad_symtab" fails while make_object reads the symbol tables,
\* "bad_section" fails later, in load_all
ElfImage(id, secs, health) ==
    [type |-> "elf", id |-> id, secs |-> secs, index |-> <<>>,
     members |-> <<>>, health |-> health]

\* an ar archive: its symbol index ("noindex": it cannot be read) and members
ArImage(index, members, health) ==
    [type |-> "archive", id |-> "", secs |-> <<>>, index |-> index,
     members |-> members, health |-> health]

\* a file that is neither, cannot be opened, cannot be read, or an archive
\* entry that cannot be read
OtherImage(type) ==
    [type |-> type, id |-> "", secs |-> <<>>, index |-> <<>>,
     members |-> <<>>, health |-> "ok"]

NoImage == OtherImage("none")

SecOf(shtype, syms) == [shtype |-> shtype, syms |-> syms]

ElfA == ElfImage("a.o",
            <<SecOf("PROGBITS", <<>>),
              SecOf("SYMTAB", <<Sym("", "LOCAL", "Undefined"),
                                Sym("foo", "GLOBAL", "Section")>>)>>, "ok")
ElfB == ElfImage("b.o",
            <<SecOf("SYMTAB", <<Sym("foo", "GLOBAL", "Undefined"),
                                Sym("bar", "WEAK", "Common")>>),
              SecOf("DYNSYM", <<Sym("f", "GLOBAL", "Section")>>)>>, "ok")
ElfC == ElfImage("c.o",
            <<SecOf("SYMTAB", <<Sym("foo", "LOCAL", "Section"),
                                Sym("bar", "GLOBAL", "Absolute"),
                                Sym("baz", "WEAK", "Undefined")>>)>>, "ok")
ElfEmpty == ElfImage("empty.o", <<SecOf("PROGBITS", <<>>), SecOf("SYMTAB", <<>>)>>, "ok")
ElfTrunc == ElfImage("trunc.o",
            <<SecOf("SYMTAB", <<Sym("foo", "WEAK", "Section")>>),
              SecOf("PROGBITS", <<>>)>>, "bad_section")
ElfBadSymtab == ElfImage("bad.o",
            <<SecOf("SYMTAB", <<Sym("foo", "GLOBAL", "Section")>>)>>, "bad_symtab")

Files == {"a.o", "b.o", "c.o", "empty.o", "trunc.o", "bad.o", "lib.a",
          "noindex.a", "missing", "notes.txt", "locked"}

\* what File::open, filetype and the readers find for a path
DiskFile(path) ==
    CASE path = "a.o"       -> ElfA
      [] path = "b.o"       -> ElfB
      [] path = "c.o"       -> ElfC
      [] path = "empty.o"   -> ElfEmpty
      [] path = "trunc.o"   -> ElfTrunc
      [] path = "bad.o"     -> ElfBadSymtab
      [] path = "lib.a"     -> ArImage(<<"foo", "bar">>, <<ElfA, ElfC, ElfB>>, "ok")
      [] path = "noindex.a" -> ArImage(<<>>, <<ElfC, OtherImage("badentry"), ElfTrunc>>, "noindex")
      [] path = "missing"   -> OtherImage("missing")
      [] path = "notes.txt" -> OtherImage("unknown")
      [] path = "locked"    -> OtherImage("ioerror")
      [] OTHER              -> OtherImage("missing")

\* state names are <<path>> for a file and <<path, identifier>> for an archive
\* member ("path (identifier)"); only the former names a file
Disk(name) == IF Len(name) = 1 THEN DiskFile(name[1]) ELSE OtherImage("missing")

-----------------------------------------------------------------------------
(* Loader states (loader.rs, enum State) *)

\* origin is history: "input", "handler" (returned by the error handler) or
\* "load" (produced by State::load from a file)
LState(kind, name, error, file, bloom, origin) ==
    [kind |-> kind, name |-> name, error |-> error, file |-> file,
     bloom |-> bloom, origin |-> origin]

StError(name, error, origin) == LState("Error", name, error, NoImage, NoBloom, origin)
StPath(name, origin)         == LState("Path", name, "", NoImage, NoBloom, origin)
StArchive(name, file)        == LState("Archive", name, "", file, NoBloom, "load")
StElf(name, file, bloom)     == LState("Elf", name, "", file, bloom, "load")
StObject(name, file, origin) == LState("Object", name, "", file, NoBloom, origin)

IsSymtab(sec) == sec.shtype \in {"SYMTAB", "DYNSYM"}

\* mutant of Admissible: the binding is not looked at
AdmissibleAnyBind(sym) == sym.shndx \notin {"Undefined", "Absolute"}

\* the symbols make_object inserts and contains accepts: GLOBAL or WEAK,
\* section index neither Undefined nor Absolute
Admissible(sym) ==
    sym.bind \in {"GLOBAL", "WEAK"} /\ sym.shndx \notin {"Undefined", "Absolute"}

\* all symbols of the SYMTAB/DYNSYM sections, in section order
RECURSIVE AllSymbols(_)
AllSymbols(secs) ==
    IF secs = <<>> THEN <<>>
    ELSE (IF IsSymtab(Head(secs)) THEN Head(secs).syms ELSE <<>>)
         \o AllSymbols(Tail(secs))

\* make_object, second loop: the admissible symbols' hashes are inserted
RECURSIVE BloomFill(_, _)
BloomFill(b, syms) ==
    IF syms = <<>> THEN b
    ELSE BloomFill(IF Admissible(Head(syms))
                   THEN BloomInsert(b, BloomHash(Head(syms).name)) ELSE b,
                   Tail(syms))

\* State::make_object
MakeObject(name, file) ==
    IF file.type # "elf" THEN StError(name, "InvalidMagic", "load")
    ELSE IF file.health = "bad_symtab" THEN StError(name, "Io", "load")
    ELSE LET syms == AllSymbols(file.secs) IN
         IF Len(syms) = 0 THEN StError(name, "NoSymbolsInObject", "load")
         ELSE StElf(name, file, BloomFill(BloomNew(Len(syms)), syms))

\* State::make_object_ar: an unreadable entry is an error
MakeObjectAr(name, entry) ==
    IF entry.type = "badentry" THEN StError(name, "Io", "load")
    ELSE MakeObject(name, entry)

\* State::contains, the Elf arm: the filter first, then the symbol scan
ElfContains(file, bloom, needle, needle_hash) ==
    /\ BloomContains(bloom, needle_hash)
    /\ \E i \in 1..Len(file.secs) :
          /\ IsSymtab(file.secs[i])
          /\ \E k \in 1..Len(file.secs[i].syms) :
                /\ Admissible(file.secs[i].syms[k])
                /\ file.secs[i].syms[k].name = needle

\* State::contains
StateContains(s, needle, needle_hash) ==
    CASE s.kind = "Error"   -> TRUE
      [] s.kind = "Path"    -> TRUE
      [] s.kind = "Archive" ->
            IF s.file.health = "noindex" THEN TRUE
            ELSE \E i \in 1..Len(s.file.index) : s.file.index[i] = needle
      [] s.kind = "Elf"     -> ElfContains(s.file, s.bloom, needle, needle_hash)
      [] s.kind = "Object"  -> FALSE

\* the error handlers `e` tried: "drop" returns no state (findsym's), "keep"
\* returns the Error state it was given, "stub" an Object in its place
Handlers == {"drop", "keep", "stub"}

OnError(handler, error, name) ==
    CASE handler = "drop"  -> <<>>
      [] handler = "keep"  -> <<StError(name, error, "handler")>>
      [] handler = "stub"  -> <<StObject(name, ElfC, "handler")>>

\* mutant of LoadError: the Error state is returned as it is
LoadErrorUnchanged(s, handler) == <<s>>

\* State::load, the Error arm
LoadError(s, handler) == OnError(handler, s.error, s.name)

\* State::load, the Path arm
LoadPath(s) ==
    LET f == Disk(s.name) IN
    CASE f.type = "missing" -> <<StError(s.name, "Io", "load")>>
      [] f.type = "unknown" -> <<StError(s.name, "InvalidMagic", "load")>>
      [] f.type = "elf"     -> <<MakeObject(s.name, f)>>
      [] f.type = "archive" -> <<StArchive(s.name, f)>>
      [] OTHER              -> <<StError(s.name, "Io", "load")>>

\* the name of an archive member: "<archive> (<identifier>)"
MemberName(name, entry) ==
    IF entry.type = "badentry" THEN name ELSE Append(name, entry.id)

\* State::load, the Archive arm: one state per entry
LoadArchive(s) ==
    [i \in 1..Len(s.file.members) |->
        MakeObjectAr(MemberName(s.name, s.file.members[i]), s.file.members[i])]

\* State::load, the Elf arm: load_all, then Object
LoadElf(s) ==
    IF s.file.health = "bad_section" THEN <<StError(s.name, "Io", "load")>>
    ELSE <<StObject(s.name, s.file, "load")>>

\* State::load
LoadState(s, handler) ==
    CASE s.kind = "Error"   -> LoadError(s, handler)
      [] s.kind = "Path"    -> LoadPath(s)
      [] s.kind = "Archive" -> LoadArchive(s)
      [] s.kind = "Elf"     -> LoadElf(s)
      [] OTHER              -> <<s>>

-----------------------------------------------------------------------------
(* State::load_if and State::load *)

Needles == {"foo", "bar", "baz"}

\* `needles.iter().map(|needle| self.contains(needle, hash(needle))).any(..)`
AnyNeedle(s, needles) ==
    \E n \in needles : StateContains(s, n, BloomHash(n))

\* the states a caller starts from
StartStates ==
    {StPath(<<f>>, "input") : f \in Files}
    \cup {StError(<<"a.o">>, "Io", "input"), StObject(<<"c.o">>, ElfC, "input")}

LoaderInit ==
    /\ ld_needles \in SUBSET Needles
    /\ ld_handler \in Handlers
    /\ \E s \in StartStates : ld_stack = <<s>>
    /\ ld_out = <<>>
    /\ ld_last = NoLast
    /\ sections = <<>>
    /\ header = DefaultHeader
    /\ start = <<>>
    /\ pre = <<>>
    /\ ops = <<>>
    /\ IdleSync
    /\ IdleLink

\* one call of load_if, on the state whose call is next: its successors'
\* calls come before those of the states behind it (flat_map), a state
\* that contains no needle is returned
LoadIfStep ==
    /\ ld_stack # <<>>
    /\ LET s    == Head(ld_stack)
           hit  == AnyNeedle(s, ld_needles)
           succ == IF hit THEN LoadState(s, ld_handler) ELSE <<>>
       IN  /\ ld_stack' = succ \o Tail(ld_stack)
           /\ ld_out' = IF hit THEN ld_out ELSE Append(ld_out, s)
           /\ ld_last' = [op |-> "load_if", seq |-> 1 - ld_last.seq, arg |-> s,
                          loaded |-> hit, res |-> IF hit THEN succ ELSE <<s>>]
    /\ UNCHANGED <<ld_needles, ld_handler>>
    /\ UNCHANGED editVars
    /\ UNCHANGED syncVars
    /\ UNCHANGED linkVars

\* the caller takes a state load_if returned and calls State::load on it
LoadCall ==
    /\ ld_stack = <<>>
    /\ \E i \in 1..Len(ld_out) :
          /\ ld_last' = [op |-> "load", seq |-> 1 - ld_last.seq, arg |-> ld_out[i],
                         loaded |-> TRUE, res |-> LoadState(ld_out[i], ld_handler)]
          /\ ld_out' = [k \in 1..(Len(ld_out) - 1) |->
                           IF k < i THEN ld_out[k] ELSE ld_out[k + 1]]
    /\ UNCHANGED <<ld_needles, ld_handler, ld_stack>>
    /\ UNCHANGED editVars
    /\ UNCHANGED syncVars
    /\ UNCHANGED linkVars

LoaderNext == LoadIfStep \/ LoadCall

LoaderSpec == LoaderInit /\ [][LoaderNext]_vars

\* a load_if call runs to its end: its recursion waits for nothing
LoaderFairSpec == LoaderSpec /\ WF_vars(LoadIfStep)

-----------------------------------------------------------------------------
(* C7..C10: the loader *)

\* C7 (as claimed): load_if returns, for every starting state, needle set and
\* error handler.
C7_LoadIfTerminates == <>(ld_stack = <<>>)

\* what it is for an object file to define a needle: a GLOBAL or WEAK symbol
\* of a SYMTAB/DYNSYM section, neither Undefined nor Absolute, named so
Defines(file, n) ==
    \E i \in 1..Len(file.secs) :
        /\ file.secs[i].shtype \in {"SYMTAB", "DYNSYM"}
        /\ \E k \in 1..Len(file.secs[i].syms) :
              LET sym == file.secs[i].syms[k] IN
              /\ sym.name = n
              /\ sym.bind = "GLOBAL" \/ sym.bind = "WEAK"
              /\ sym.shndx # "Undefined" /\ sym.shndx # "Absolute"

\* C8: every Object that load_if returns and that was produced by loading
\* defines at least one needle, and load_if returns an Elf state that defines
\* no needle unchanged.
C8_ObjectsDefineNeedle ==
    /\ \A i \in 1..Len(ld_out) :
          (ld_out[i].kind = "Object" /\ ld_out[i].origin = "load")
              => \E n \in ld_needles : Defines(ld_out[i].file, n)
    /\ (/\ ld_last.op = "load_if"
        /\ ld_last.arg.kind = "Elf"
        /\ ~ \E n \in ld_needles : Defines(ld_last.arg.file, n))
           => /\ ~ld_last.loaded
              /\ ld_out # <<>>
              /\ ld_out[Len(ld_out)] = ld_last.arg

\* load_if turned an archive member into an Object that defines a needle and
\* returned another member, which defines none, as an Elf state
C8_Witness ==
    /\ ld_stack = <<>>
    /\ ld_last.op = "load_if"
    /\ \E i \in 1..Len(ld_out) :
          /\ ld_out[i].kind = "Object" /\ ld_out[i].origin = "load"
          /\ Len(ld_out[i].name) = 2
    /\ \E i \in 1..Len(ld_out) :
          /\ ld_out[i].kind = "Elf"
          /\ ~ \E n \in ld_needles : Defines(ld_out[i].file, n)

\* the Elf states the loader holds
ElfStates ==
    {ld_stack[i] : i \in {k \in 1..Len(ld_stack) : ld_stack[k].kind = "Elf"}}
    \cup {ld_out[i] : i \in {k \in 1..Len(ld_out) : ld_out[k].kind = "Elf"}}

\* C9: the filter of an Elf state built by make_object contains the hash of
\* every symbol make_object inserted, and contains(needle, hash(needle))
\* gives the answer of a scan of the symbols for every needle.
C9_NoFalseNegatives ==
    \A s \in ElfStates :
        /\ \A i \in 1..Len(s.file.secs) :
              \A k \in 1..Len(s.file.secs[i].syms) :
                  LET sym == s.file.secs[i].syms[k] IN
                  (/\ s.file.secs[i].shtype \in {"SYMTAB", "DYNSYM"}
                   /\ sym.bind \in {"GLOBAL", "WEAK"}
                   /\ sym.shndx \notin {"Undefined", "Absolute"})
                      => BloomContains(s.bloom, BloomHash(sym.name))
        /\ \A n \in AllNames :
              StateContains(s, n, BloomHash(n)) <=> Defines(s.file, n)

\* an Elf state of a file with two admissible symbols, both in its filter,
\* and non-admissible ones, was built and asked about
C9_Witness ==
    \E s \in ElfStates :
        /\ s.file = ElfB
        /\ StateContains(s, "bar", BloomHash("bar"))
        /\ StateContains(s, "f", BloomHash("f"))
        /\ ~StateContains(s, "foo", BloomHash("foo"))
        /\ s.bloom.bits # {}

LastLoad == ld_last.op = "load" \/ (ld_last.op = "load_if" /\ ld_last.loaded)

\* C10 (as claimed): State::load applied to an Object or to an Error state
\* returns exactly that state.
C10_TerminalUnchanged ==
    (LastLoad /\ ld_last.arg.kind \in {"Object", "Error"})
        => ld_last.res = <<ld_last.arg>>

\* C10 (amended): State::load applied to an Object returns exactly that
\* state; applied to an Error state it returns what the error handler returns
\* for the state's error and name: nothing for a handler that drops errors.
C10_ObjectTerminalErrorHandled ==
    /\ (LastLoad /\ ld_last.arg.kind = "Object") => ld_last.res = <<ld_last.arg>>
    /\ (LastLoad /\ ld_last.arg.kind = "Error") =>
          /\ ld_handler = "drop" => ld_last.res = <<>>
          /\ ld_handler = "keep" =>
                /\ Len(ld_last.res) = 1
                /\ ld_last.res[1].kind = "Error"
                /\ ld_last.res[1].name = ld_last.arg.name
                /\ ld_last.res[1].error = ld_last.arg.error
          /\ ld_handler = "stub" =>
                /\ Len(ld_last.res) = 1
                /\ ld_last.res[1].kind = "Object"

\* State::load was called on an Error state and returned the Object the
\* handler put in its place, not the Error state
C10_Witness ==
    /\ LastLoad
    /\ ld_last.arg.kind = "Error"
    /\ ld_handler = "stub"
    /\ Len(ld_last.res) = 1
    /\ ld_last.res[1].kind = "Object"
    /\ ld_last.res[1].origin = "handler"

-----------------------------------------------------------------------------
(* C11: make_object and NoSymbolsInObject *)

\* the file has a GLOBAL or WEAK symbol in a SYMTAB/DYNSYM section whose
\* section index is neither Undefined nor Absolute
HasAdmissibleSymbol(file) ==
    \E i \in 1..Len(file.secs) :
        /\ file.secs[i].shtype \in {"SYMTAB", "DYNSYM"}
        /\ \E k \in 1..Len(file.secs[i].syms) :
              /\ file.secs[i].syms[k].bind \in {"GLOBAL", "WEAK"}
              /\ file.secs[i].syms[k].shndx \notin {"Undefined", "Absolute"}

FailedNoSymbols(s) == s.kind = "Error" /\ s.error = "NoSymbolsInObject"

\* C11 (as claimed): make_object, called by State::load on a path or on an
\* archive member that is a readable ELF image, fails with NoSymbolsInObject
\* exactly when the image has no admissible symbol.
C11_NoSymbolsIffNoneAdmissible ==
    /\ (LastLoad /\ ld_last.arg.kind = "Path"
         /\ Disk(ld_last.arg.name).type = "elf"
         /\ Disk(ld_last.arg.name).health # "bad_symtab")
           => (FailedNoSymbols(ld_last.res[1])
                  <=> ~HasAdmissibleSymbol(Disk(ld_last.arg.name)))
    /\ (LastLoad /\ ld_last.arg.kind = "Archive")
           => \A i \in 1..Len(ld_last.res) :
                 LET m == ld_last.arg.file.members[i] IN
                 (m.type = "elf" /\ m.health # "bad_symtab")
                    => (FailedNoSymbols(ld_last.res[i]) <=> ~HasAdmissibleSymbol(m))

-----------------------------------------------------------------------------
(* relayout and segments (src/bin/ld.rs) *)

\* file offset and virtual address of the first laid out section, 0x300
LayoutBase == 768
\* alignment of LOAD segments, 0x200000
LoadAlign == 2097152
\* Header::size and SegmentHeader::entsize for Class64
HeaderSize == 64
SegmentEntsize == 56

\* sync_all's dirty loop run to its end: the set of outcomes, "ok", "error"
\* (a section's sync failed; its place holds a default section) or "diverges".
\* dq is `dirty`, bq the queue being iterated. A pass queues the link targets
\* of the sections it syncs, so a queue that is not empty after `passes`
\* passes (one more than there are sections) is fed by a cycle of links and
\* never empties.
RECURSIVE SyncLoop(_, _, _, _, _)
SyncLoop(secs, eh, dq, bq, passes) ==
    IF bq = <<>>
    THEN IF dq = <<>> THEN {[res |-> "ok", secs |-> secs]}
         ELSE IF passes = 0 THEN {[res |-> "diverges", secs |-> secs]}
         ELSE SyncLoop(secs, eh, <<>>, dq, passes - 1)
    ELSE LET i      == Head(bq)
             sec    == At(secs, i)
             holed  == [secs EXCEPT ![i + 1] = DefaultSection]
             has    == HasLinked(sec, Len(secs))
             linked == IF has THEN At(holed, sec.link).content ELSE NoLinked
         IN  UNION {
               LET put == IF has THEN [holed EXCEPT ![sec.link + 1].content = r.linked]
                          ELSE holed
               IN  IF r.err THEN {[res |-> "error", secs |-> put]}
                   ELSE SyncLoop([put EXCEPT ![i + 1] = r.sec], eh,
                                 DirtyPush(dq, sec, Len(secs)), Tail(bq), passes)
               : r \in SectionSync(sec, eh, linked) }

\* Elf::sync_all as one call: the set of its outcomes [res, secs, eh]; "panic"
\* is the unwrap of a .shstrtab that holds no Strtab
SyncAll(secs, eh) ==
    LET i == ShstrtabPosition(secs) IN
    IF i >= 0 /\ At(secs, i).content.kind # "Strtab"
    THEN {[res |-> "panic", secs |-> [secs EXCEPT ![i + 1].content = ContentNone],
           eh |-> [eh EXCEPT !.shstrndx = i]]}
    ELSE LET eh1   == IF i >= 0 THEN [eh EXCEPT !.shstrndx = i] ELSE eh
             named == IF i >= 0 THEN SyncNames(secs, i) ELSE secs
         IN  { [res |-> o.res, secs |-> o.secs, eh |-> eh1]
               : o \in SyncLoop(named, eh1, [k \in 1..Len(secs) |-> k - 1], <<>>,
                                Len(secs) + 1) }

\* relayout: round poff up to addralign; the amount added to both poff and voff
AlignPad(sec, poff) ==
    IF sec.addralign > 0 /\ poff % sec.addralign # 0
    THEN sec.addralign - (poff % sec.addralign)
    ELSE 0

\* mutant of VoffCongruent: voff is left as it is
VoffUnchanged(sec, poff, voff) == voff

\* relayout: voff of a section that is not NOBITS is raised until
\* (voff - poff) is a multiple of 0x200000
VoffCongruent(sec, poff, voff) ==
    IF sec.shtype # "NOBITS" /\ (voff - poff) % LoadAlign # 0
    THEN voff + (LoadAlign - ((voff - poff) % LoadAlign))
    ELSE voff

\* mutant of PoffAfter: poff does not advance
PoffNotAdvanced(sec, poff, eh) == poff

\* relayout: `poff += sec.size(&elf.header)`
PoffAfter(sec, poff, eh) == poff + ContentSize(sec.content, eh)

\* relayout's loop from the section at sequence position i on; panic is the
\* `poff > voff` abort, which leaves the sections behind it as they were
RECURSIVE RelayoutFrom(_, _, _, _, _)
RelayoutFrom(secs, i, poff, voff, eh) ==
    IF i > Len(secs) THEN [secs |-> secs, panic |-> FALSE]
    ELSE LET sec == secs[i]
             p1  == poff + AlignPad(sec, poff)
             v1  == voff + AlignPad(sec, poff)
         IN  IF sec.shtype # "NOBITS" /\ p1 > v1
             THEN [secs |-> secs, panic |-> TRUE]
             ELSE LET v2   == VoffCongruent(sec, p1, v1)
                      laid == [sec EXCEPT !.offset = p1, !.addr = v2]
                  IN  RelayoutFrom([secs EXCEPT ![i] = laid], i + 1,
                                   PoffAfter(sec, p1, eh), v2 + sec.size, eh)

\* relayout(elf): the set of its outcomes [res, secs, eh]. `elf.sync_all()?`
\* returns its error; `&mut elf.sections[1..]` panics on an empty container
RelayoutSections(secs, eh) ==
    { IF o.res # "ok" THEN o
      ELSE IF Len(o.secs) = 0 THEN [o EXCEPT !.res = "panic"]
      ELSE LET r == RelayoutFrom(o.secs, 2, LayoutBase, LayoutBase, o.eh)
           IN  [res |-> IF r.panic THEN "panic" ELSE "ok", secs |-> r.secs, eh |-> o.eh]
      : o \in SyncAll(secs, eh) }

\* a SegmentHeader
Segment(phtype, flags, offset, filesz, vaddr, memsz, align) ==
    [phtype |-> phtype, flags |-> flags, offset |-> offset, filesz |-> filesz,
     vaddr |-> vaddr, memsz |-> memsz, align |-> align]

\* the segment that covers exactly one section
SectionSegment(phtype, flags, section, align) ==
    Segment(phtype, flags, section.offset, section.size, section.addr,
            section.size, align)

\* the LOAD segment segments() pushes for the running range
LoadSegment(st) ==
    Segment("LOAD", st.flags, st.pstart, st.poff - st.pstart, st.vstart,
            st.voff - st.vstart, LoadAlign)

\* segments(): the running variables before the loop
SegmentsStart(secs) ==
    [r |-> <<>>, vshift |-> 0, voff |-> At(secs, 1).addr, poff |-> At(secs, 1).offset,
     vstart |-> 0, pstart |-> 0, flags |-> {"READABLE"}]

\* segments(): one iteration of the loop over the sections
SegmentsStep(st, section) ==
    LET named == IF section.name = ".dynamic"
                 THEN <<SectionSegment("DYNAMIC", {"READABLE", "WRITABLE"}, section, 8)>>
                 ELSE IF section.name = ".interp"
                 THEN <<SectionSegment("INTERP", {"READABLE"}, section, 1)>>
                 ELSE <<>>
        tls   == IF "TLS" \in section.flags
                 THEN <<SectionSegment("TLS", {"READABLE"}, section, 16)>>
                 ELSE <<>>
        st1   == [st EXCEPT !.r = @ \o named \o tls]
    IN  IF "ALLOC" \notin section.flags THEN st1
        ELSE IF section.shtype = "NOBITS"
        THEN [st1 EXCEPT !.voff = section.addr + section.size,
                         !.poff = section.offset]
        ELSE LET st2 == IF section.offset + st1.vshift # section.addr
                        THEN [st1 EXCEPT !.r = Append(@, LoadSegment(st1)),
                                         !.vshift = section.addr - section.offset,
                                         !.vstart = section.addr,
                                         !.pstart = section.offset,
                                         !.flags = {"READABLE"}]
                        ELSE st1
             IN  [st2 EXCEPT !.voff = section.addr + section.size,
                             !.poff = section.offset + section.size,
                             !.flags = (@ \cup (IF "EXECINSTR" \in section.flags
                                                THEN {"EXECUTABLE"} ELSE {}))
                                          \cup (IF "WRITE" \in section.flags
                                                THEN {"WRITABLE"} ELSE {})]

RECURSIVE SegmentsLoop(_, _, _)
SegmentsLoop(st, secs, i) ==
    IF i > Len(secs) THEN st
    ELSE SegmentsLoop(SegmentsStep(st, secs[i]), secs, i + 1)

\* segments(elf): Ok with the program headers, or the error
SegmentsOf(secs) ==
    IF Len(secs) < 2 THEN [err |-> "none", segs |-> <<>>]
    ELSE LET st == SegmentsLoop(SegmentsStart(secs), secs, 1)
             r  == Append(st.r, LoadSegment(st))
         IN  IF At(secs, 1).offset > At(secs, 1).addr
             THEN [err |-> "FirstSectionOffsetCanNotBeLargerThanAddress", segs |-> <<>>]
             ELSE LET first_vshift  == At(secs, 1).addr - At(secs, 1).offset
                      segments_size == SegmentEntsize * (Len(r) + 1)
                  IN  [err |-> "none",
                       segs |-> <<Segment("PHDR", {"READABLE", "EXECUTABLE"},
                                          HeaderSize, segments_size,
                                          first_vshift + HeaderSize,
                                          segments_size, 8)>> \o r]

\* the sections laid out, by kind; header.size of a section that is not
\* NOBITS is what Section::new left, sync derives it
LayKinds == {"interp", "text", "tdata", "tbss", "bss", "comment", "stale"}

LaySection(kind) ==
    CASE kind = "interp"  ->
            NewSection(".interp", "PROGBITS", {"ALLOC"}, ContentRaw(28), 0, 0)
      [] kind = "text"    ->
            [NewSection(".text", "PROGBITS", {"ALLOC", "EXECINSTR"}, ContentRaw(5), 0, 0)
                EXCEPT !.addralign = 16]
      [] kind = "tdata"   ->
            [NewSection(".tdata", "PROGBITS", {"ALLOC", "WRITE", "TLS"}, ContentRaw(5), 0, 0)
                EXCEPT !.addralign = 8]
      [] kind = "tbss"    ->
            [NewSection(".tbss", "NOBITS", {"ALLOC", "WRITE", "TLS"}, ContentNone, 0, 0)
                EXCEPT !.addralign = 16, !.size = 4]
      [] kind = "bss"     ->
            [NewSection(".bss", "NOBITS", {"ALLOC", "WRITE"}, ContentNone, 0, 0)
                EXCEPT !.addralign = 16, !.size = 3]
      [] kind = "comment" ->
            [NewSection(".comment", "PROGBITS", {}, ContentRaw(7), 0, 0)
                EXCEPT !.addralign = 1]
      [] kind = "stale"   ->
            [NewSection(".stale", "NOBITS", {"ALLOC"}, ContentRaw(6), 0, 0)
                EXCEPT !.size = 2]

\* number of sections behind the null section, of any kind in any order
NumLaySecs == 3
\* number of sections of a container made of thread-local sections only
NumTlsSecs == 8

\* containers handed to relayout: a null section, then up to NumLaySecs
\* sections of any kind, or NumTlsSecs thread-local sections
LayContainers ==
    LET Short == UNION {[1..n -> LayKinds] : n \in 0..NumLaySecs}
        Tls   == [1..NumTlsSecs -> {"tdata", "tbss"}]
    IN  { <<DefaultSection>> \o [i \in 1..Len(f) |-> LaySection(f[i])]
          : f \in Short \cup Tls }

LayoutInit ==
    /\ sections \in LayContainers
    /\ header = DefaultHeader
    /\ start = sections
    /\ pre = sections
    /\ ops = <<>>
    /\ IdleSync
    /\ IdleLoader
    /\ link_pc = "built"
    /\ segments = <<>>
    /\ collector = NoCollector
    /\ out_file = NoWritten
    /\ link_hist = NoLinkHist

\* main: `relayout(&mut elf);` the Result is dropped, so after an error of
\* sync_all main goes on with sections that were not laid out ("unlaid")
Relayout ==
    /\ link_pc = "built"
    /\ \E r \in RelayoutSections(sections, header) :
          /\ sections' = r.secs
          /\ header' = r.eh
          /\ link_pc' = CASE r.res = "ok"       -> "laid"
                          [] r.res = "error"    -> "unlaid"
                          [] r.res = "panic"    -> "panic"
                          [] r.res = "diverges" -> "hang"
    /\ pre' = sections
    /\ link_hist' = [op |-> "relayout", stages |-> Append(link_hist.stages, "relayout"),
                     call |-> <<>>]
    /\ UNCHANGED <<start, ops, segments, collector, out_file>>
    /\ UNCHANGED syncVars
    /\ UNCHANGED loaderVars

\* main: `elf.segments = segments(&elf).unwrap();`
Segments ==
    /\ link_pc \in {"laid", "unlaid"}
    /\ LET r == SegmentsOf(sections) IN
       /\ segments' = r.segs
       /\ link_pc' = IF r.err # "none" THEN "panic"
                     ELSE IF link_pc = "laid" THEN "segmented" ELSE "segmented_unlaid"
    /\ link_hist' = [op |-> "segments", stages |-> Append(link_hist.stages, "segments"),
                     call |-> <<>>]
    /\ UNCHANGED <<collector, out_file>>
    /\ UNCHANGED editVars
    /\ UNCHANGED syncVars
    /\ UNCHANGED loaderVars

LayoutNext == Relayout \/ Segments

LayoutSpec == LayoutInit /\ [][LayoutNext]_vars

-----------------------------------------------------------------------------
(* C12, C13, C18, C19: layout *)

Alloc(sec) == "ALLOC" \in sec.flags

\* the bytes a section occupies in the file
FileSize(sec) == IF sec.shtype = "NOBITS" THEN 0 ELSE sec.size

LoadIndices == {k \in 1..Len(segments) : segments[k].phtype = "LOAD"}

\* [a, a + n) lies within the address range of seg, within its file range
InAddrRange(a, n, seg) == seg.vaddr <= a /\ a + n <= seg.vaddr + seg.memsz
InFileRange(a, n, seg) == seg.offset <= a /\ a + n <= seg.offset + seg.filesz

\* C12 (as claimed): after relayout and segments(), every ALLOC section lies
\* with its address range, and with its file range when it has file content,
\* within exactly one LOAD segment, and the PHDR segment's file and address
\* ranges lie within the first LOAD segment.
C12_SegmentContainment ==
    link_pc = "segmented" =>
        /\ \A i \in 2..Len(sections) :
              LET sec == sections[i] IN
              Alloc(sec) =>
                /\ Cardinality({k \in LoadIndices :
                                   InAddrRange(sec.addr, sec.size, segments[k])}) = 1
                /\ \A k \in LoadIndices :
                      (InAddrRange(sec.addr, sec.size, segments[k]) /\ FileSize(sec) > 0)
                          => InFileRange(sec.offset, FileSize(sec), segments[k])
        /\ \A p \in 1..Len(segments) :
              segments[p].phtype = "PHDR" =>
                 LET first == segments[CHOOSE k \in LoadIndices :
                                          \A m \in LoadIndices : k <= m]
                 IN  /\ InFileRange(segments[p].offset, segments[p].filesz, first)
                     /\ InAddrRange(segments[p].vaddr, segments[p].memsz, first)

Laid == link_pc \in {"laid", "segmented"}

\* the ranges [a, a + n) and [b, b + m) share no point
Disjoint(a, n, b, m) == n = 0 \/ m = 0 \/ a + n <= b \/ b + m <= a

\* C13: after relayout, any two distinct ALLOC sections have disjoint file
\* ranges [offset, offset + on-file size) and disjoint address ranges
\* [addr, addr + header.size).
C13_AllocRangesDisjoint ==
    Laid =>
        \A i, j \in 2..Len(sections) :
            (i # j /\ Alloc(sections[i]) /\ Alloc(sections[j])) =>
                /\ Disjoint(sections[i].offset, ContentSize(sections[i].content, header),
                            sections[j].offset, ContentSize(sections[j].content, header))
                /\ Disjoint(sections[i].addr, sections[i].size,
                            sections[j].addr, sections[j].size)

\* relayout placed three ALLOC sections, a NOBITS one between two with file
\* content, the last one a LOAD alignment above its file offset
C13_Witness ==
    /\ link_pc = "laid"
    /\ Len(sections) = 4
    /\ \A i \in 2..4 : Alloc(sections[i])
    /\ sections[2].shtype = "PROGBITS" /\ sections[2].size > 0
    /\ sections[3].shtype = "NOBITS" /\ sections[3].size > 0
    /\ sections[4].shtype = "PROGBITS" /\ sections[4].size > 0
    /\ sections[4].offset >= sections[2].offset + sections[2].size
    /\ sections[4].addr >= sections[3].addr + sections[3].size

\* no NOBITS section carries content bytes
NobitsEmpty(secs) ==
    \A i \in 1..Len(secs) :
        secs[i].shtype = "NOBITS" => ContentSize(secs[i].content, header) = 0

\* C18: relayout of a container whose NOBITS sections carry no content bytes
\* does not abort with poff > voff, and afterwards every section of index >= 1
\* that is not NOBITS has offset <= addr and (addr - offset) a multiple of
\* 0x200000.
C18_OffsetAddrCongruent ==
    NobitsEmpty(start) =>
        /\ link_pc # "panic"
        /\ Laid =>
              \A i \in 2..Len(sections) :
                  sections[i].shtype # "NOBITS" =>
                      /\ sections[i].offset <= sections[i].addr
                      /\ (sections[i].addr - sections[i].offset) % LoadAlign = 0

\* relayout placed a section with file content behind a NOBITS section of
\* non-zero size: its address was raised by 0x200000 over its file offset
C18_Witness ==
    /\ link_pc = "laid"
    /\ NobitsEmpty(start)
    /\ \E i \in 2..(Len(sections) - 1) :
          /\ sections[i].shtype = "NOBITS" /\ sections[i].size > 0
          /\ sections[i + 1].shtype # "NOBITS"
          /\ sections[i + 1].addr - sections[i + 1].offset = LoadAlign

\* C19 (as claimed): after relayout every section of index >= 1 with
\* addralign > 0 has header.offset and header.addr multiples of its addralign,
\* NOBITS sections behind NOBITS sections included.
C19_OffsetAddrAligned ==
    Laid =>
        \A i \in 2..Len(sections) :
            sections[i].addralign > 0 =>
                /\ sections[i].offset % sections[i].addralign = 0
                /\ sections[i].addr % sections[i].addralign = 0

-----------------------------------------------------------------------------
(* The collector: SimpleCollector *)

Max(a, b) == IF a >= b THEN a ELSE b

Zeros(n) == [i \in 1..n |-> 0]

\* SectionContent::Raw(bytes) and SectionContent::Relocations(rels)
ContentBytes(bytes)      == [ContentRaw(Len(bytes)) EXCEPT !.bytes = bytes]
ContentRelocations(rels) == [ContentRelocs(Len(rels)) EXCEPT !.rels = rels]

\* SymbolSectionIndex
ShSection(i) == [kind |-> "Section", index |-> i]
ShUndefined  == [kind |-> "Undefined", index |-> 0]
ShAbsolute   == [kind |-> "Absolute", index |-> 0]

LinkSymbol(name, bind, stype, shndx, value) ==
    [name |-> name, bind |-> bind, stype |-> stype, shndx |-> shndx, value |-> value]

Relocation(rtype, sym, addr, addend) ==
    [rtype |-> rtype, sym |-> sym, addr |-> addr, addend |-> addend]

\* main: the image handed to SimpleCollector::new, a null section and .interp
InterpBytes == [i \in 1..28 |-> 47]

MainSections ==
    <<DefaultSection,
      NewSection(".interp", "PROGBITS", {"ALLOC"}, ContentBytes(InterpBytes), 0, 0)>>

\* SimpleCollector::new(elf): the sections of elf keyed by name, in order
CollectorNew(secs) ==
    [NoCollector EXCEPT !.sections = IF Len(secs) < 1 THEN <<DefaultSection>> ELSE secs]

\* merge, the prefix tests on the section name: the key of the bucket
BucketName(name) ==
    CASE name \in {".bss", ".bss.x"}            -> ".bss"
      [] name \in {".rodata", ".rodata.str"}    -> ".rodata"
      [] name \in {".data", ".data.rel"}        -> ".data"
      [] name \in {".text", ".text.hot"}        -> ".text"
      [] OTHER                                  -> name

\* OrderMap::entry(name): the index of the occupied entry, or -1
BucketIndex(secs, name) ==
    IF \E i \in 0..(Len(secs) - 1) : At(secs, i).name = name
    THEN CHOOSE i \in 0..(Len(secs) - 1) : At(secs, i).name = name
    ELSE -1

\* merge, Occupied entry, Raw content: [panic, sec, ov]. The bucket's
\* as_raw_mut().unwrap() panics when the bucket holds no Raw content, and
\* `cc.len() % align` panics when both alignments are zero
MergeRaw(dest, sec) ==
    LET align == Max(dest.addralign, sec.addralign)
        d1    == [dest EXCEPT !.addralign = align]
    IN  IF dest.content.kind # "Raw" \/ align = 0
        THEN [panic |-> TRUE, sec |-> d1, ov |-> 0]
        ELSE LET cc     == dest.content.bytes
                 padded == IF Len(cc) % align # 0
                           THEN cc \o Zeros(align - (Len(cc) % align))
                           ELSE cc
             IN  [panic |-> FALSE,
                  sec   |-> [d1 EXCEPT !.content = ContentBytes(padded \o sec.content.bytes)],
                  ov    |-> Len(padded)]

\* merge, Occupied entry, no content: the bucket's header.size grows
MergeNone(dest, sec) ==
    [panic |-> FALSE, sec |-> [dest EXCEPT !.size = @ + sec.size], ov |-> dest.size]

\* self.relocs.entry(nu_shndx).or_insert_with(Vec::new).append(&mut rela)
RelocsAppend(relocs, shndx, rela) ==
    [k \in (DOMAIN relocs) \cup {shndx} |->
        IF k \in DOMAIN relocs
        THEN (IF k = shndx THEN relocs[k] \o rela ELSE relocs[k])
        ELSE rela]

\* SimpleCollector::merge(sec, rela): [panic, col, nu_shndx, nu_off]
Merge(col, sec, rela) ==
    LET name == BucketName(sec.name)
        i    == BucketIndex(col.sections, name)
        r    == IF i >= 0
                THEN CASE sec.content.kind = "Raw"  -> MergeRaw(At(col.sections, i), sec)
                       [] sec.content.kind = "None" -> MergeNone(At(col.sections, i), sec)
                       [] OTHER -> [panic |-> TRUE, sec |-> At(col.sections, i), ov |-> 0]
                ELSE [panic |-> FALSE, sec |-> [sec EXCEPT !.name = name], ov |-> 0]
        nu_shndx == IF i >= 0 THEN i ELSE Len(col.sections)
        secs     == IF i >= 0 THEN [col.sections EXCEPT ![i + 1] = r.sec]
                    ELSE Append(col.sections, r.sec)
    IN  [panic    |-> r.panic,
         nu_shndx |-> nu_shndx,
         nu_off   |-> r.ov,
         col      |-> IF r.panic THEN [col EXCEPT !.sections = secs]
                      ELSE [col EXCEPT !.sections = secs,
                                       !.relocs = RelocsAppend(@, nu_shndx, rela)]]

\* the objects the symbolic linker hands over, by kind: the merged input
\* section, its relocations and the symbols of linker.symtab that belong to
\* it. lid is the object's id, base the index in linker.symtab of its first
\* symbol; the bytes of a section carry lid + 1, padding is 0.
ObjKinds == {"text", "hot", "data", "bss", "call"}

ObjSection(name, shtype, flags, content, size, addralign) ==
    [NewSection(name, shtype, flags, content, 0, 0)
        EXCEPT !.size = size, !.addralign = addralign]

LinkerObject(kind, lid, base) ==
    CASE kind = "text" ->
           [lid     |-> lid,
            section |-> ObjSection(".text", "PROGBITS", {"ALLOC", "EXECINSTR"},
                                   ContentBytes(<<lid + 1>>), 1, 0),
            relocs  |-> <<>>,
            symbols |-> <<LinkSymbol("_start", "GLOBAL", "FUNC", ShSection(1), 0)>>]
      [] kind = "hot" ->
           [lid     |-> lid,
            section |-> ObjSection(".text.hot", "PROGBITS", {"ALLOC", "EXECINSTR"},
                                   ContentBytes(<<lid + 1, lid + 1, lid + 1>>), 3, 4),
            relocs  |-> <<Relocation("R_X86_64_64", base, 2, 3)>>,
            symbols |-> <<LinkSymbol("foo", "GLOBAL", "FUNC", ShSection(4), 1)>>]
      [] kind = "data" ->
           [lid     |-> lid,
            section |-> ObjSection(".data.rel", "PROGBITS", {"ALLOC", "WRITE"},
                                   ContentBytes(<<lid + 1, lid + 1>>), 2, 8),
            relocs  |-> <<Relocation("R_X86_64_64", base, 0, 5),
                          Relocation("R_X86_64_64", 0, 1, 7)>>,
            symbols |-> <<LinkSymbol("bar", "LOCAL", "OBJECT", ShSection(3), 1),
                          LinkSymbol("abs", "GLOBAL", "NOTYPE", ShAbsolute, 9)>>]
      [] kind = "bss" ->
           [lid     |-> lid,
            section |-> ObjSection(".bss", "NOBITS", {"ALLOC", "WRITE"}, ContentNone, 4, 16),
            relocs  |-> <<>>,
            symbols |-> <<LinkSymbol("baz", "GLOBAL", "OBJECT", ShSection(2), 2)>>]
      [] kind = "call" ->
           [lid     |-> lid,
            section |-> ObjSection(".text", "PROGBITS", {"ALLOC", "EXECINSTR"},
                                   ContentBytes(<<lid + 1, lid + 1>>), 2, 16),
            relocs  |-> <<Relocation("R_X86_64_PC32", base, 1, -4)>>,
            symbols |-> <<LinkSymbol("ext", "GLOBAL", "FUNC", ShUndefined, 0)>>]

\* number of objects the linker hands to collect
MaxObjects == 3

\* collect, second loop: the symbol pushed for one Loc of linker.symtab, or
\* the panic on a Loc whose object was not merged
CollectSymbol(loc, input_map) ==
    IF loc.sym.shndx.kind = "Section"
    THEN IF loc.obj >= Len(input_map)
         THEN [panic |-> TRUE, sym |-> loc.sym]
         ELSE [panic |-> FALSE,
               sym   |-> [loc.sym EXCEPT !.shndx = ShSection(input_map[loc.obj + 1][1]),
                                         !.value = @ + input_map[loc.obj + 1][2]]]
    ELSE [panic |-> FALSE, sym |-> loc.sym]

\* the state after `SimpleCollector::new(elf)` in main: elf.sections was
\* drained into the collector
LinkInit ==
    /\ sections = <<>>
    /\ header = DefaultHeader
    /\ start = MainSections
    /\ pre = <<>>
    /\ ops = <<>>
    /\ IdleSync
    /\ IdleLoader
    /\ link_pc = "collecting"
    /\ segments = <<>>
    /\ collector = CollectorNew(MainSections)
    /\ out_file = NoWritten
    /\ link_hist = NoLinkHist

\* collect, one turn of the loop over linker.objects: the object with the
\* next lid is merged and entered into input_map
MergeObject ==
    /\ link_pc = "collecting"
    /\ Len(collector.input_map) < MaxObjects
    /\ \E kind \in ObjKinds :
          LET lid  == Len(collector.input_map)
              obj  == LinkerObject(kind, lid, Len(collector.linker))
              i    == BucketIndex(collector.sections, BucketName(obj.section.name))
              m    == Merge(collector, obj.section, obj.relocs)
              locs == [k \in 1..Len(obj.symbols) |-> [obj |-> lid, sym |-> obj.symbols[k]]]
          IN  /\ collector' =
                    IF m.panic THEN m.col
                    ELSE [m.col EXCEPT !.input_map = Append(@, <<m.nu_shndx, m.nu_off>>),
                                       !.linker = @ \o locs]
              /\ link_pc' = IF m.panic THEN "panic" ELSE "collecting"
              /\ link_hist' =
                    [op     |-> "merge",
                     stages |-> link_hist.stages,
                     call   |-> [sec      |-> obj.section,
                                 rela     |-> obj.relocs,
                                 existing |-> i >= 0,
                                 dest     |-> IF i >= 0 THEN At(collector.sections, i)
                                              ELSE DefaultSection,
                                 bucket   |-> At(m.col.sections, m.nu_shndx),
                                 nu_shndx |-> m.nu_shndx,
                                 nu_off   |-> m.nu_off,
                                 panic    |-> m.panic]]
    /\ UNCHANGED <<segments, out_file>>
    /\ UNCHANGED editVars
    /\ UNCHANGED syncVars
    /\ UNCHANGED loaderVars

\* collect, after the loop over linker.objects: the symbols of linker.symtab
\* are pushed to self.symtab and the buckets become the sections of the image
CollectSymtab ==
    /\ link_pc = "collecting"
    /\ LET got   == [k \in 1..Len(collector.linker) |->
                       CollectSymbol(collector.linker[k], collector.input_map)]
           panic == \E k \in 1..Len(got) : got[k].panic
       IN  /\ collector' = [collector EXCEPT
                              !.symtab = [k \in 1..Len(got) |-> got[k].sym],
                              !.sections = IF panic THEN @ ELSE <<>>]
           /\ sections' = IF panic THEN sections ELSE collector.sections
           /\ link_pc' = IF panic THEN "panic" ELSE "collected"
    /\ pre' = sections
    /\ link_hist' = [op |-> "collect", stages |-> Append(link_hist.stages, "collect"),
                     call |-> <<>>]
    /\ UNCHANGED <<header, start, ops, segments, out_file>>
    /\ UNCHANGED syncVars
    /\ UNCHANGED loaderVars

-----------------------------------------------------------------------------
(* C15: merge aligns the bucket and appends *)

RoundUp(n, m) == IF m = 0 THEN n ELSE ((n + m - 1) \div m) * m

\* C15: merging a section with Raw content into an existing bucket never
\* aborts, whatever the two addralign values are: the bucket is zero-padded to
\* a multiple of the larger addralign, nu_off is the padded length, the source
\* bytes follow at that offset and the bucket's addralign is the larger one;
\* merging into a new bucket returns offset 0
C15_MergeAlignsAndAppends ==
    (link_hist.op = "merge" /\ link_hist.call.sec.content.kind = "Raw") =>
        LET c   == link_hist.call
            m   == Max(c.dest.addralign, c.sec.addralign)
            old == c.dest.content.bytes
            up  == RoundUp(Len(old), m)
        IN  IF c.existing
            THEN /\ ~c.panic
                 /\ c.nu_off = up
                 /\ c.bucket.addralign = m
                 /\ c.bucket.content.bytes =
                       old \o Zeros(up - Len(old)) \o c.sec.content.bytes
            ELSE ~c.panic /\ c.nu_off = 0

-----------------------------------------------------------------------------
(* SimpleCollector::into_elf *)

\* the orders in which the entries of a HashMap with keys S can be iterated
Orders(S) ==
    {f \in [1..Cardinality(S) -> S] :
        \A i, j \in 1..Cardinality(S) : i # j => f[i] # f[j]}

\* b".rela" followed by the bucket's name
RelaName(name) == ".rela" \o name

\* into_elf: .strtab, .symtab, one RELA section per entry of self.relocs in
\* the order the map yields them, and .shstrtab are pushed
IntoElfSections(secs, symtab, relocs, order) ==
    LET sh_index_strtab == Len(secs)
        sh_index_symtab == Len(secs) + 1
        first_global    == IF FirstGlobal(symtab) >= 0 THEN FirstGlobal(symtab) ELSE 0
        relas == [k \in 1..Len(order) |->
                    NewSection(RelaName(At(secs, order[k]).name), "RELA", {},
                               ContentRelocations(relocs[order[k]]),
                               sh_index_symtab, order[k])]
    IN  secs
        \o <<NewSection(".strtab", "STRTAB", {}, ContentStrtab(<<>>), 0, 0),
             NewSection(".symtab", "SYMTAB", {}, ContentSymbols(symtab),
                        sh_index_strtab, first_global)>>
        \o relas
        \o <<NewSection(".shstrtab", "STRTAB", {}, ContentStrtab(<<>>), 0, 0)>>

\* mutant of MainAfter: the compatibility pass runs before the relocator
MainAfterCompatFirst(call) ==
    CASE call = "into_elf"                 -> "relocated"
      [] call = "make_symtab_gnuld_compat" -> "image"
      [] call = "relocate"                 -> "built"

\* main, lines 55-64: the program point behind each call
MainAfter(call) ==
    CASE call = "into_elf"                 -> "image"
      [] call = "relocate"                 -> "relocated"
      [] call = "make_symtab_gnuld_compat" -> "built"

\* where main stands after a call whose Result it drops
AfterCall(res, next) ==
    CASE res \in {"ok", "error"} -> next
      [] res = "panic"           -> "panic"
      [] res = "diverges"        -> "hang"

\* main: `let mut elf = collector.into_elf();` with its `relayout(&mut self.elf);`
IntoElf ==
    /\ link_pc = "collected"
    /\ \E order \in Orders(DOMAIN collector.relocs) :
          \E r \in RelayoutSections(IntoElfSections(sections, collector.symtab,
                                                    collector.relocs, order), header) :
             /\ sections' = r.secs
             /\ header' = r.eh
             /\ link_pc' = AfterCall(r.res, MainAfter("into_elf"))
    /\ pre' = sections
    /\ link_hist' = [op |-> "into_elf", stages |-> Append(link_hist.stages, "into_elf"),
                     call |-> <<>>]
    /\ UNCHANGED <<start, ops, segments, collector, out_file>>
    /\ UNCHANGED syncVars
    /\ UNCHANGED loaderVars

-----------------------------------------------------------------------------
(* DynamicRelocator *)

\* symbol::Symbol::default()
NullSymbol == LinkSymbol("", "LOCAL", "NOTYPE", ShUndefined, 0)

\* relocate, SYMTAB arm: the section's address is added to the value of every
\* symbol defined in a section; a GLOBAL _start sets header.entry
RelocateSymbols(st, i) ==
    LET holed == [st.secs EXCEPT ![i + 1] = DefaultSection]
        c     == At(st.secs, i).content
    IN  IF c.kind # "Symbols"
           \/ \E k \in 1..Len(c.syms) :
                 c.syms[k].shndx.kind = "Section" /\ c.syms[k].shndx.index >= Len(holed)
        THEN [st EXCEPT !.panic = TRUE]
        ELSE LET syms == [k \in 1..Len(c.syms) |->
                            IF c.syms[k].shndx.kind = "Section"
                            THEN [c.syms[k] EXCEPT
                                    !.value = @ + At(holed, c.syms[k].shndx.index).addr]
                            ELSE c.syms[k]]
                 starts == {k \in 1..Len(syms) :
                               /\ syms[k].shndx.kind = "Section"
                               /\ syms[k].name = "_start"
                               /\ syms[k].bind = "GLOBAL"}
                 last   == CHOOSE k \in starts : \A j \in starts : j <= k
             IN  [st EXCEPT !.secs[i + 1].content.syms = syms,
                            !.eh.entry = IF starts = {} THEN @ ELSE syms[last].value]

\* mutant of RelocateOne: the symbol's value is not added to the addend
RelocateOneNoValue(reloc, secaddr, sym) ==
    [reloc EXCEPT !.sym = 0, !.addr = @ + secaddr]

\* relocate, the R_X86_64_64 arm for one relocation
RelocateOne(reloc, secaddr, sym) ==
    [reloc EXCEPT !.sym = 0, !.addr = @ + secaddr, !.addend = @ + sym.value]

\* relocate, RELA arm: the section is taken out and scheduled for deletion,
\* its target section becomes writable, its relocations go to dynrel
RelocateRela(st, i) ==
    LET relocs == At(st.secs, i)
        holed  == [st.secs EXCEPT ![i + 1] = DefaultSection]
    IN  IF relocs.info >= Len(holed) \/ relocs.link >= Len(holed)
        THEN [st EXCEPT !.panic = TRUE]
        ELSE LET flagged == [holed EXCEPT ![relocs.info + 1].flags = @ \cup {"WRITE"}]
                 secaddr == At(flagged, relocs.info).addr
                 symtab  == At(flagged, relocs.link).content
                 rels    == relocs.content.rels
             IN  IF \/ symtab.kind # "Symbols"
                    \/ relocs.content.kind # "Relocations"
                    \/ \E k \in 1..Len(rels) :
                          rels[k].sym >= Len(symtab.syms) \/ rels[k].rtype # "R_X86_64_64"
                 THEN [st EXCEPT !.panic = TRUE, !.secs = flagged]
                 ELSE [st EXCEPT
                         !.secs = flagged,
                         !.delete_secs = <<i>> \o @,
                         !.dynrel = @ \o [k \in 1..Len(rels) |->
                                            RelocateOne(rels[k], secaddr,
                                                        symtab.syms[rels[k].sym + 1])]]

\* relocate, the loop over the sections from index i on
RECURSIVE RelocateLoop(_, _)
RelocateLoop(st, i) ==
    IF st.panic \/ i >= Len(st.secs) THEN st
    ELSE LET sec == At(st.secs, i)
             s1  == IF "ALLOC" \in sec.flags THEN [st EXCEPT !.last_alloc_shndx = i] ELSE st
             s2  == CASE sec.shtype = "STRTAB" ->
                            IF sec.name = ".dynstr" THEN [s1 EXCEPT !.shndx_dynstr = i] ELSE s1
                      [] sec.shtype = "SYMTAB" -> RelocateSymbols(s1, i)
                      [] sec.shtype = "RELA"   -> RelocateRela(s1, i)
                      [] OTHER                 -> s1
         IN  RelocateLoop(s2, i + 1)

\* relocate, `for i in delete_secs`: the assert and the plain Vec::remove
RECURSIVE DeleteSecs(_, _, _)
DeleteSecs(secs, del, last_alloc_shndx) ==
    IF del = <<>> THEN [panic |-> FALSE, secs |-> secs]
    ELSE IF ~(Head(del) > last_alloc_shndx) THEN [panic |-> TRUE, secs |-> secs]
    ELSE DeleteSecs(VecRemove(secs, Head(del)), Tail(del), last_alloc_shndx)

\* symbol::symhash(eh, symbols, link): a .hash section linked to the symbol
\* table's index, with the words nbucket, nchain, the buckets and the chains
SymHash(eh, symbols, link) ==
    NewSection(".hash", "HASH", {"ALLOC"},
               ContentRaw(4 * (2 + link + Len(symbols))), link, 0)

\* relocate: .dynstr (if there is none), .hash, .dynsym and .rela.dyn are put
\* behind the last ALLOC section with plain Vec::insert
RelocateInsert(secs, eh, dynrel, shndx_dynstr0, last_alloc_shndx0) ==
    LET dynsym       == <<NullSymbol>>
        a1           == IF shndx_dynstr0 < 0 THEN last_alloc_shndx0 + 1 ELSE last_alloc_shndx0
        shndx_dynstr == IF shndx_dynstr0 < 0 THEN a1 ELSE shndx_dynstr0
        secs1 == IF shndx_dynstr0 < 0
                 THEN VecInsert(secs, a1, NewSection(".dynstr", "STRTAB", {"ALLOC"},
                                                     ContentStrtab(<<>>), 0, 0))
                 ELSE secs
        a2    == a1 + 1
        secs2 == VecInsert(secs1, a2, SymHash(eh, dynsym, a2 + 1))
        shndx_dynsym == a2 + 1
        first_global == IF FirstGlobal(dynsym) >= 0 THEN FirstGlobal(dynsym) ELSE 0
        secs3 == VecInsert(secs2, shndx_dynsym,
                           NewSection(".dynsym", "DYNSYM", {"ALLOC"}, ContentSymbols(dynsym),
                                      shndx_dynstr, first_global))
        a4    == shndx_dynsym + 1
        secs4 == VecInsert(secs3, a4,
                           NewSection(".rela.dyn", "RELA", {"ALLOC"},
                                      ContentRelocations(dynrel), shndx_dynsym, 0))
    IN  [secs |-> secs4, shndx_dynstr |-> shndx_dynstr, last_alloc_shndx |-> a4]

DynEntry(dhtype, val) == [dhtype |-> dhtype, val |-> val]

\* SectionContent::Dynamic(entries) for entries that hold no string
ContentDynamicEntries(dyn) == [ContentDynamic(<<>>) EXCEPT !.dyn = dyn]

RelativeTypes == {"R_X86_64_RELATIVE", "R_X86_64_JUMP_SLOT"}

\* mutant of FirstNonRela: the whole table counts as the leading run
FirstNonRelaAll(rels) == Len(rels)

\* position of the first relocation that is neither RELATIVE nor JUMP_SLOT
FirstNonRela(rels) ==
    IF \E k \in 1..Len(rels) : rels[k].rtype \notin RelativeTypes
    THEN (CHOOSE k \in 1..Len(rels) :
             /\ rels[k].rtype \notin RelativeTypes
             /\ \A j \in 1..(k - 1) : rels[j].rtype \in RelativeTypes) - 1
    ELSE Len(rels)

\* dynamic(), the entries pushed for one section
DynamicFor(sec) ==
    CASE sec.name = ".hash"     -> <<DynEntry("HASH", sec.addr)>>
      [] sec.name = ".dynstr"   -> <<DynEntry("STRTAB", sec.addr), DynEntry("STRSZ", sec.size)>>
      [] sec.name = ".dynsym"   -> <<DynEntry("SYMTAB", sec.addr),
                                     DynEntry("SYMENT", sec.entsize)>>
      [] sec.name = ".rela.dyn" ->
            LET first_non_rela == FirstNonRela(sec.content.rels) IN
            <<DynEntry("RELA", sec.addr), DynEntry("RELASZ", sec.size),
              DynEntry("RELAENT", sec.entsize)>>
            \o (IF first_non_rela > 0
                THEN <<DynEntry("RELACOUNT", first_non_rela)>> ELSE <<>>)
            \o (IF first_non_rela < Len(sec.content.rels)
                THEN <<DynEntry("TEXTREL", first_non_rela)>> ELSE <<>>)
      [] OTHER -> <<>>

RECURSIVE DynamicFrom(_, _)
DynamicFrom(secs, i) ==
    IF i > Len(secs) THEN <<>> ELSE DynamicFor(secs[i]) \o DynamicFrom(secs, i + 1)

\* DynamicRelocator::dynamic(elf): [err, dyn]
Dynamic(secs) ==
    IF \E i \in 1..Len(secs) :
          secs[i].name = ".rela.dyn" /\ secs[i].content.kind # "Relocations"
    THEN [err |-> TRUE, dyn |-> <<>>]
    ELSE [err |-> FALSE,
          dyn |-> <<DynEntry("FLAGS_1", "PIE")>> \o DynamicFrom(secs, 1)
                  \o <<DynEntry("NULL", 0)>>]

\* DynamicRelocator::relocate(elf): the set of its outcomes [res, secs, eh]
Relocate(secs, eh) ==
    LET st == RelocateLoop([secs |-> secs, eh |-> eh, dynrel |-> <<>>,
                            shndx_dynstr |-> -1, last_alloc_shndx |-> 0,
                            delete_secs |-> <<>>, panic |-> FALSE], 0)
        d  == DeleteSecs(st.secs, st.delete_secs, st.last_alloc_shndx)
    IN  IF st.panic THEN {[res |-> "panic", secs |-> st.secs, eh |-> st.eh]}
        ELSE IF d.panic THEN {[res |-> "panic", secs |-> d.secs, eh |-> st.eh]}
        ELSE LET ins == RelocateInsert(d.secs, st.eh, st.dynrel, st.shndx_dynstr,
                                       st.last_alloc_shndx)
             IN  { IF r.res \in {"panic", "diverges"} THEN r
                   ELSE IF Dynamic(r.secs).err THEN [r EXCEPT !.res = "error"]
                   ELSE [r EXCEPT
                           !.res = "ok",
                           !.secs = VecInsert(r.secs, ins.last_alloc_shndx + 1,
                                       NewSection(".dynamic", "DYNAMIC", {"ALLOC", "WRITE"},
                                                  ContentDynamicEntries(Dynamic(r.secs).dyn),
                                                  ins.shndx_dynstr, 0))]
                   : r \in RelayoutSections(ins.secs, st.eh) }

\* main: `DynamicRelocator::relocate(&mut elf);`
RelocateImage ==
    /\ link_pc = "image"
    /\ \E r \in Relocate(sections, header) :
          /\ sections' = r.secs
          /\ header' = r.eh
          /\ link_pc' = AfterCall(r.res, MainAfter("relocate"))
    /\ pre' = sections
    /\ link_hist' = [op |-> "relocate", stages |-> Append(link_hist.stages, "relocate"),
                     call |-> <<>>]
    /\ UNCHANGED <<start, ops, segments, collector, out_file>>
    /\ UNCHANGED syncVars
    /\ UNCHANGED loaderVars

-----------------------------------------------------------------------------
(* C14, C20: the entries of .rela.dyn *)

\* relocate returned and main went on
Relocated == link_hist.op = "relocate" /\ link_pc = "relocated"

HasRelaDyn(secs) == \E i \in 1..Len(secs) : secs[i].name = ".rela.dyn"

\* the relocations of the section named .rela.dyn
RelaDyn(secs) ==
    (CHOOSE s \in {secs[i] : i \in 1..Len(secs)} : s.name = ".rela.dyn").content.rels

\* a symbol's absolute virtual address: its section-relative value plus the
\* address of its section; the value itself for a symbol outside any section
AbsoluteValue(sym, addrs) ==
    IF sym.shndx.kind = "Section" THEN sym.value + At(addrs, sym.shndx.index).addr
    ELSE sym.value

\* the entries the R_X86_64_64 relocations of the RELA sections of secs from
\* index i on stand for, in section order and then in relocation order, with
\* the section addresses read from addrs
RECURSIVE ExpectedDynrel(_, _, _)
ExpectedDynrel(secs, addrs, i) ==
    IF i >= Len(secs) THEN <<>>
    ELSE LET sec    == At(secs, i)
             rels   == SelectSeq(sec.content.rels, LAMBDA r : r.rtype = "R_X86_64_64")
             symtab == At(secs, sec.link).content.syms
             mine   == IF sec.shtype = "RELA"
                       THEN [k \in 1..Len(rels) |->
                               [sym    |-> 0,
                                addr   |-> rels[k].addr + At(addrs, sec.info).addr,
                                addend |-> rels[k].addend
                                           + AbsoluteValue(symtab[rels[k].sym + 1], addrs)]]
                       ELSE <<>>
         IN  mine \o ExpectedDynrel(secs, addrs, i + 1)

EntryFields(rels) ==
    [k \in 1..Len(rels) |->
        [sym |-> rels[k].sym, addr |-> rels[k].addr, addend |-> rels[k].addend]]

\* C14: after relocate, .rela.dyn holds one entry per R_X86_64_64 relocation
\* of the RELA sections of the image it was given, in the order they were
\* visited, with sym = 0, addr = original addr + address of the target
\* section, addend = original addend + absolute address of the referenced
\* symbol; the addresses are those of the image at the call, and they are
\* the addresses the same sections have in the image relocate leaves
C14_RelocationsRewritten ==
    Relocated =>
        /\ HasRelaDyn(sections)
        /\ EntryFields(RelaDyn(sections)) = ExpectedDynrel(pre, pre, 0)
        /\ EntryFields(RelaDyn(sections)) = ExpectedDynrel(pre, sections, 0)

\* relocate rewrote relocations of two RELA sections against symbols that
\* lie at a non-zero offset of a section
C14_Witness ==
    /\ Relocated
    /\ HasRelaDyn(sections)
    /\ Len(RelaDyn(sections)) >= 3
    /\ Cardinality({i \in 1..Len(pre) :
                      pre[i].shtype = "RELA" /\ pre[i].content.rels # <<>>}) >= 2
    /\ \E i \in 1..Len(pre) :
          /\ pre[i].shtype = "RELA"
          /\ \E k \in 1..Len(pre[i].content.rels) :
                LET sym == At(pre, pre[i].link).content.syms[pre[i].content.rels[k].sym + 1]
                IN  sym.shndx.kind = "Section" /\ sym.value > 0

\* C20: every entry relocate put into .rela.dyn has type R_X86_64_RELATIVE
C20_EntriesAreRelative ==
    (Relocated /\ HasRelaDyn(sections)) =>
        \A k \in 1..Len(RelaDyn(sections)) :
            RelaDyn(sections)[k].rtype = "R_X86_64_RELATIVE"

-----------------------------------------------------------------------------
(* Elf::make_symtab_gnuld_compat *)

\* the SECTION symbol made for section i, and the FILE symbol
SectionSymbol(i) == LinkSymbol("", "LOCAL", "SECTION", ShSection(i), 0)
FileSymbol       == LinkSymbol("", "LOCAL", "FILE", ShAbsolute, 0)

Keyed(key, sym) == [key |-> key, sym |-> sym]

\* the results sort_unstable_by can give for gs ordered by value: every
\* arrangement in which the values do not decrease
SortedByValue(gs) ==
    { [k \in 1..Len(gs) |-> gs[p[k]]] :
        p \in { q \in Orders(1..Len(gs)) :
                  \A a, b \in 1..Len(gs) :
                      a < b => gs[q[a]].sym.value <= gs[q[b]].sym.value } }

\* the symbols of the table with their old indices: those that are not of
\* type SECTION and (not) GLOBAL, in table order
KeyedWhere(syms, global) ==
    LET keyed == [k \in 1..Len(syms) |-> Keyed(k - 1, syms[k])]
    IN  SelectSeq(keyed, LAMBDA e : e.sym.stype # "SECTION"
                                    /\ ((e.sym.bind = "GLOBAL") <=> global))

\* symtab_remap: the null symbol, one SECTION symbol per section behind the
\* first, the local symbols, the FILE symbol, then the sorted global symbols;
\* the new symbols get the keys original_size, original_size + 1, ...
SymtabRemap(syms, n, gs) ==
    <<Keyed(Len(syms), NullSymbol)>>
    \o [i \in 1..(n - 1) |-> Keyed(Len(syms) + i, SectionSymbol(i))]
    \o KeyedWhere(syms, FALSE)
    \o <<Keyed(Len(syms) + n, FileSymbol)>>
    \o gs

\* mutant of CompatReloc: the value of a SECTION symbol is not added to the
\* addend
CompatRelocNoAddend(reloc, syms, n, remap) ==
    LET isSec  == reloc.sym < Len(syms) /\ syms[reloc.sym + 1].stype = "SECTION"
        secsym == syms[reloc.sym + 1]
        bad    == isSec /\ (secsym.shndx.kind # "Section" \/ secsym.shndx.index >= n)
        r1     == IF isSec /\ ~bad
                  THEN [reloc EXCEPT
                          !.sym = IF secsym.shndx.index = 0 THEN 0
                                  ELSE Len(syms) + secsym.shndx.index]
                  ELSE reloc
        pos    == {k \in 1..Len(remap) : remap[k].key = r1.sym}
    IN  IF bad \/ pos = {} THEN [panic |-> TRUE, reloc |-> reloc]
        ELSE [panic |-> FALSE, reloc |-> [r1 EXCEPT !.sym = (CHOOSE k \in pos : TRUE) - 1]]

\* one relocation of a RELA section linked to the table: [panic, reloc]
CompatReloc(reloc, syms, n, remap) ==
    LET isSec  == reloc.sym < Len(syms) /\ syms[reloc.sym + 1].stype = "SECTION"
        secsym == syms[reloc.sym + 1]
        bad    == isSec /\ (secsym.shndx.kind # "Section" \/ secsym.shndx.index >= n)
        r1     == IF isSec /\ ~bad
                  THEN [reloc EXCEPT
                          !.addend = @ + secsym.value,
                          !.sym = IF secsym.shndx.index = 0 THEN 0
                                  ELSE Len(syms) + secsym.shndx.index]
                  ELSE reloc
        pos    == {k \in 1..Len(remap) : remap[k].key = r1.sym}
    IN  IF bad \/ pos = {} THEN [panic |-> TRUE, reloc |-> reloc]
        ELSE [panic |-> FALSE, reloc |-> [r1 EXCEPT !.sym = (CHOOSE k \in pos : TRUE) - 1]]

\* _make_symtab_gnuld_compat(shndx): the set of its outcomes [panic, secs]
SymtabCompat(secs, shndx) ==
    LET c == At(secs, shndx).content
        n == Len(secs)
    IN  IF c.kind # "Symbols" THEN {[panic |-> TRUE, secs |-> secs]}
        ELSE { LET remap == SymtabRemap(c.syms, n, gs)
                   fixed == [k \in 1..n |->
                               IF secs[k].shtype = "RELA" /\ secs[k].link = shndx
                               THEN [j \in 1..Len(secs[k].content.rels) |->
                                       CompatReloc(secs[k].content.rels[j], c.syms, n, remap)]
                               ELSE <<>>]
                   panic == \E k \in 1..n :
                               /\ secs[k].shtype = "RELA" /\ secs[k].link = shndx
                               /\ \/ secs[k].content.kind # "Relocations"
                                  \/ \E j \in 1..Len(fixed[k]) : fixed[k][j].panic
               IN  [panic |-> panic,
                    secs  |-> [k \in 1..n |->
                                 IF k = shndx + 1
                                 THEN [secs[k] EXCEPT !.content =
                                         ContentSymbols([j \in 1..Len(remap) |-> remap[j].sym])]
                                 ELSE IF secs[k].shtype = "RELA" /\ secs[k].link = shndx
                                 THEN [secs[k] EXCEPT !.content.rels =
                                         [j \in 1..Len(fixed[k]) |-> fixed[k][j].reloc]]
                                 ELSE secs[k]]]
               : gs \in SortedByValue(KeyedWhere(c.syms, TRUE)) }

\* make_symtab_gnuld_compat, the loop over the sections from index i on
RECURSIVE CompatFrom(_, _)
CompatFrom(secs, i) ==
    IF i >= Len(secs) THEN {[panic |-> FALSE, secs |-> secs]}
    ELSE IF At(secs, i).shtype # "SYMTAB" THEN CompatFrom(secs, i + 1)
    ELSE UNION { IF o.panic THEN {o} ELSE CompatFrom(o.secs, i + 1)
                 : o \in SymtabCompat(secs, i) }

\* Elf::make_symtab_gnuld_compat: the set of its outcomes [res, secs, eh];
\* the Result of its sync_all is dropped
MakeSymtabGnuldCompat(secs, eh) ==
    UNION { IF o.panic THEN {[res |-> "panic", secs |-> o.secs, eh |-> eh]}
            ELSE SyncAll(o.secs, eh)
            : o \in CompatFrom(secs, 0) }

\* main: `elf.make_symtab_gnuld_compat();`
CompatImage ==
    /\ link_pc = "relocated"
    /\ \E r \in MakeSymtabGnuldCompat(sections, header) :
          /\ sections' = r.secs
          /\ header' = r.eh
          /\ link_pc' = AfterCall(r.res, MainAfter("make_symtab_gnuld_compat"))
    /\ pre' = sections
    /\ link_hist' = [op |-> "make_symtab_gnuld_compat",
                     stages |-> Append(link_hist.stages, "make_symtab_gnuld_compat"),
                     call |-> <<>>]
    /\ UNCHANGED <<start, ops, segments, collector, out_file>>
    /\ UNCHANGED syncVars
    /\ UNCHANGED loaderVars

-----------------------------------------------------------------------------
(* Elf::to_writer *)

\* SectionHeader::entsize
SectionHeaderEntsize(eh) == 4 + 4 + (IF eh.class = "Class64" THEN 6 * 8 ELSE 6 * 4) + 4 + 4

\* Section::to_writer writes nothing for a section that is Unloaded (it
\* returns Ok at once) or that has no content
Writes(sec) == sec.content.kind \notin {"Unloaded", "None"}

\* Section::to_writer: rs, the number of bytes written, or header.size for a
\* section without content
WrittenSize(sec, eh) ==
    IF sec.content.kind = "None" THEN sec.size ELSE ContentSize(sec.content, eh)

\* Section::to_writer: the assert_eq!(rs, header.size) fails
FailsAssert(sec, eh) ==
    sec.content.kind # "Unloaded" /\ WrittenSize(sec, eh) # sec.size

Piece(sec, eh) == [name |-> sec.name, offset |-> sec.offset, len |-> ContentSize(sec.content, eh)]

SetMax(S) == CHOOSE x \in S : \A y \in S : y <= x

\* the length of the file once the header space, the program headers and the
\* pieces were written
FileEnd(pieces, nsegs) ==
    SetMax({HeaderSize + nsegs * SegmentEntsize} \cup {p.offset + p.len : p \in pieces})

\* Elf::to_writer: the set of its outcomes [res, pieces, headers, eh]. The
\* sections are written in the order of their offsets; sort_unstable_by can
\* put sections of equal offset in any order, so when an assert fails the
\* sections of the same offset may or may not have been written before it.
ElfToWriter(secs, segs, eh) ==
    LET eh1 == IF Len(segs) > 0
               THEN [eh EXCEPT !.phoff = HeaderSize, !.phnum = Len(segs),
                               !.phentsize = SegmentEntsize]
               ELSE eh
        headers == [k \in 1..Len(secs) |->
                      [name |-> secs[k].name, offset |-> secs[k].offset,
                       size |-> secs[k].size]]
        failing == {k \in 1..Len(secs) : FailsAssert(secs[k], eh1)}
    IN  IF failing = {}
        THEN LET pieces == {Piece(secs[k], eh1) : k \in {j \in 1..Len(secs) : Writes(secs[j])}}
                 eh2    == IF eh1.shstrndx > 0
                           THEN [eh1 EXCEPT !.shoff = FileEnd(pieces, Len(segs)),
                                            !.shnum = Len(headers),
                                            !.shentsize = SectionHeaderEntsize(eh1)]
                           ELSE eh1
             IN  {[res     |-> "ok",
                   pieces  |-> pieces,
                   headers |-> IF eh1.shstrndx > 0 THEN headers ELSE <<>>,
                   eh      |-> [eh2 EXCEPT !.ehsize = HeaderSize]]}
        ELSE LET first  == CHOOSE m \in {secs[k].offset : k \in failing} :
                              \A k \in failing : m <= secs[k].offset
                 before == {k \in 1..Len(secs) : secs[k].offset < first /\ Writes(secs[k])}
                 ties   == {k \in 1..Len(secs) :
                              secs[k].offset = first /\ Writes(secs[k]) /\ k \notin failing}
             IN  { [res     |-> "panic",
                    pieces  |-> {Piece(secs[k], eh1) : k \in before \cup T \cup {f}},
                    headers |-> <<>>,
                    eh      |-> eh1]
                   : T \in SUBSET ties,
                     f \in {k \in failing : secs[k].offset = first /\ Writes(secs[k])} }
                 \cup
                 (IF \E k \in failing : secs[k].offset = first /\ ~Writes(secs[k])
                  THEN { [res     |-> "panic",
                          pieces  |-> {Piece(secs[k], eh1) : k \in before \cup T},
                          headers |-> <<>>,
                          eh      |-> eh1] : T \in SUBSET ties }
                  ELSE {})

\* elf.to_writer(&mut out_file), as main calls it on the image it built or as
\* it is called on a container read from a file; self.sections is moved out
\* and left empty
ToWriter ==
    /\ link_pc \in {"segmented", "segmented_unlaid", "read"}
    /\ \E r \in ElfToWriter(sections, segments, header) :
          /\ out_file' = [res |-> r.res, pieces |-> r.pieces, headers |-> r.headers]
          /\ header' = r.eh
          /\ link_pc' = IF r.res = "ok" THEN "written" ELSE "panic"
    /\ sections' = <<>>
    /\ pre' = sections
    /\ link_hist' = [op |-> "to_writer", stages |-> Append(link_hist.stages, "to_writer"),
                     call |-> <<>>]
    /\ UNCHANGED <<start, ops, segments, collector>>
    /\ UNCHANGED syncVars
    /\ UNCHANGED loaderVars

\* the linker driver, from SimpleCollector::new to the written file
LinkNext ==
    \/ MergeObject
    \/ CollectSymtab
    \/ IntoElf
    \/ RelocateImage
    \/ CompatImage
    \/ Relayout
    \/ Segments
    \/ ToWriter

LinkSpec == LinkInit /\ [][LinkNext]_vars

-----------------------------------------------------------------------------
(* C16: the order of the stages *)

\* the calls main makes, in the order of the source
PipelineOrder ==
    <<"collect", "into_elf", "relocate", "make_symtab_gnuld_compat", "relayout",
      "segments", "to_writer">>

\* the order with the compatibility pass before the relocator
CompatFirstOrder ==
    <<"collect", "into_elf", "make_symtab_gnuld_compat", "relocate", "relayout",
      "segments", "to_writer">>

IsPrefix(s, t) == Len(s) <= Len(t) /\ s = SubSeq(t, 1, Len(s))

\* C16 as stated: the stages run in the order collector, compatibility pass,
\* relocator, relayout, segments, emitter
C16_CompatBeforeRelocate == IsPrefix(link_hist.stages, CompatFirstOrder)

\* C16, corrected: the stages run in the order collector, relocator,
\* compatibility pass, relayout, segments, emitter; make_symtab_gnuld_compat
\* is applied to the image DynamicRelocator::relocate has left
C16_StagesInOrder == IsPrefix(link_hist.stages, PipelineOrder)

\* a run of the pipeline that wrote the file
C16_Witness ==
    /\ link_pc = "written"
    /\ out_file.res = "ok"
    /\ link_hist.stages = PipelineOrder

-----------------------------------------------------------------------------
(* C17: writing a container that holds an Unloaded section *)

\* SectionContent::Unloaded
ContentUnloaded == [ContentNone EXCEPT !.kind = "Unloaded"]

\* the sections of a container read from a file, by kind: header.size is the
\* size in the file; "grown" is a section whose content was replaced after
\* it was loaded and not synced since
WriteKinds == {"text", "text_unloaded", "shstrtab", "shstrtab_unloaded", "bss", "grown"}

WriteSection(kind) ==
    CASE kind = "text" ->
            [NewSection(".text", "PROGBITS", {"ALLOC", "EXECINSTR"}, ContentRaw(5), 0, 0)
                EXCEPT !.size = 5]
      [] kind = "text_unloaded" ->
            [NewSection(".data", "PROGBITS", {"ALLOC", "WRITE"}, ContentUnloaded, 0, 0)
                EXCEPT !.size = 6]
      [] kind = "shstrtab" ->
            [NewSection(".shstrtab", "STRTAB", {}, ContentStrtab(<<".shstrtab">>), 0, 0)
                EXCEPT !.size = 11]
      [] kind = "shstrtab_unloaded" ->
            [NewSection(".shstrtab", "STRTAB", {}, ContentUnloaded, 0, 0)
                EXCEPT !.size = 11]
      [] kind = "bss" ->
            [NewSection(".bss", "NOBITS", {"ALLOC", "WRITE"}, ContentNone, 0, 0)
                EXCEPT !.size = 4]
      [] kind = "grown" ->
            [NewSection(".rodata", "PROGBITS", {"ALLOC"}, ContentRaw(7), 0, 0)
                EXCEPT !.size = 5]

\* number of sections behind the null section of a container that is written
NumWriteSecs == 3

\* the sections one after the other in the file, behind the ELF header
RECURSIVE FilePlaced(_, _)
FilePlaced(secs, off) ==
    IF secs = <<>> THEN <<>>
    ELSE <<[Head(secs) EXCEPT !.offset = off]>>
         \o FilePlaced(Tail(secs), off + FileSize(Head(secs)))

WriteContainers ==
    { <<DefaultSection>> \o FilePlaced([i \in 1..Len(f) |-> WriteSection(f[i])], HeaderSize)
      : f \in UNION {[1..n -> WriteKinds] : n \in 0..NumWriteSecs} }

WriteInit ==
    /\ sections \in WriteContainers
    /\ header = [DefaultHeader EXCEPT
                   !.shstrndx = IF ShstrtabPosition(sections) >= 0
                                THEN ShstrtabPosition(sections) ELSE 0]
    /\ start = sections
    /\ pre = sections
    /\ ops = <<>>
    /\ IdleSync
    /\ IdleLoader
    /\ link_pc = "read"
    /\ segments = <<>>
    /\ collector = NoCollector
    /\ out_file = NoWritten
    /\ link_hist = NoLinkHist

WriteNext == ToWriter

WriteSpec == WriteInit /\ [][WriteNext]_vars

\* C17: to_writer on a container that holds an Unloaded section returns the
\* error WritingUnloadedSection and produces no image
C17_UnloadedSectionRejected ==
    (link_hist.op = "to_writer" /\ \E k \in 1..Len(pre) : pre[k].content.kind = "Unloaded")
        => out_file.res = "WritingUnloadedSection"

-----------------------------------------------------------------------------
(* C21: DynamicRelocator::dynamic on images with mixed relocation types *)

RelTypes == {"R_X86_64_RELATIVE", "R_X86_64_JUMP_SLOT", "R_X86_64_64"}

\* number of entries of the .rela.dyn section handed to dynamic()
MaxRels == 3

\* a section with the header fields dynamic() reads
DynSection(name, shtype, content, addr, size, entsize) ==
    [NewSection(name, shtype, {"ALLOC"}, content, 0, 0)
        EXCEPT !.addr = addr, !.size = size, !.entsize = entsize]

DynOthers ==
    <<DynSection(".dynstr", "STRTAB", ContentStrtab(<<"libc.so">>), 800, 9, 1),
      DynSection(".hash", "HASH", ContentRaw(28), 812, 28, 0),
      DynSection(".dynsym", "DYNSYM", ContentSymbols(<<NullSymbol>>), 840, 24, 24)>>

\* the .rela.dyn section with relocations of the given types
RelaDynOf(types) ==
    DynSection(".rela.dyn", "RELA",
               ContentRelocations([k \in 1..Len(types) |-> Relocation(types[k], 0, 900 + k, k)]),
               864, 24 * Len(types), 24)

\* images: a null section, any of .dynstr, .hash, .dynsym, then .rela.dyn
\* with up to MaxRels relocations of any types, or with content that is not
\* a relocation table
DynContainers ==
    { <<DefaultSection>> \o SelectSeq(DynOthers, LAMBDA sec : sec.name \in S) \o <<last>>
      : S \in SUBSET {".dynstr", ".hash", ".dynsym"},
        last \in { RelaDynOf(t) : t \in UNION {[1..n -> RelTypes] : n \in 0..MaxRels} }
                 \cup {DynSection(".rela.dyn", "RELA", ContentRaw(24), 864, 24, 24)} }

DynamicInit ==
    /\ sections \in DynContainers
    /\ header = DefaultHeader
    /\ start = sections
    /\ pre = sections
    /\ ops = <<>>
    /\ IdleSync
    /\ IdleLoader
    /\ link_pc = "relaid"
    /\ segments = <<>>
    /\ collector = NoCollector
    /\ out_file = NoWritten
    /\ link_hist = NoLinkHist

\* `let dynamic = DynamicRelocator::dynamic(elf)?;`
DynamicCall ==
    /\ link_pc = "relaid"
    /\ link_pc' = IF Dynamic(sections).err THEN "error" ELSE "dynamic"
    /\ link_hist' = [op |-> "dynamic", stages |-> Append(link_hist.stages, "dynamic"),
                     call |-> Dynamic(sections)]
    /\ UNCHANGED <<segments, collector, out_file>>
    /\ UNCHANGED editVars
    /\ UNCHANGED syncVars
    /\ UNCHANGED loaderVars

DynamicNext == DynamicCall

DynamicSpec == DynamicInit /\ [][DynamicNext]_vars

\* length of the leading run of RELATIVE / JUMP_SLOT relocations
LeadingRun(rels) ==
    CHOOSE n \in 0..Len(rels) :
        /\ \A k \in 1..n : rels[k].rtype \in RelativeTypes
        /\ n < Len(rels) => rels[n + 1].rtype \notin RelativeTypes

HasEntry(dyn, dhtype) == \E i \in 1..Len(dyn) : dyn[i].dhtype = dhtype

HasEntryWith(dyn, dhtype, val) ==
    \E i \in 1..Len(dyn) : dyn[i].dhtype = dhtype /\ dyn[i].val = val

\* C21: the list dynamic() returns starts with FLAGS_1 = PIE and ends with
\* NULL; with k entries in .rela.dyn and a leading run of n RELATIVE or
\* JUMP_SLOT entries it holds RELACOUNT = n exactly when n > 0 and
\* TEXTREL = n exactly when n < k
C21_DynamicListShape ==
    (link_hist.op = "dynamic" /\ ~link_hist.call.err) =>
        LET dyn  == link_hist.call.dyn
            rels == RelaDyn(sections)
            n    == LeadingRun(rels)
        IN  /\ dyn[1] = DynEntry("FLAGS_1", "PIE")
            /\ dyn[Len(dyn)].dhtype = "NULL"
            /\ \A i \in 1..(Len(dyn) - 1) : dyn[i].dhtype # "NULL"
            /\ HasEntry(dyn, "RELACOUNT") <=> n > 0
            /\ HasEntry(dyn, "RELACOUNT") => HasEntryWith(dyn, "RELACOUNT", n)
            /\ HasEntry(dyn, "TEXTREL") <=> n < Len(rels)
            /\ HasEntry(dyn, "TEXTREL") => HasEntryWith(dyn, "TEXTREL", n)

\* dynamic() ran on a table whose leading run is neither empty nor the whole
C21_Witness ==
    /\ link_hist.op = "dynamic"
    /\ ~link_hist.call.err
    /\ LeadingRun(RelaDyn(sections)) > 0
    /\ LeadingRun(RelaDyn(sections)) < Len(RelaDyn(sections))
    /\ HasEntry(link_hist.call.dyn, "RELACOUNT")
    /\ HasEntry(link_hist.call.dyn, "TEXTREL")

-----------------------------------------------------------------------------
(* C22: DynamicRelocator::relocate on images with and without .dynstr *)

\* largest size of the .text section of an image handed to relocate
MaxTextSize == 3

\* where a .dynstr section of the input sits: nowhere, behind .text, behind
\* .data or behind .symtab
DynstrPlaces == {"none", "text", "data", "symtab"}

\* the section names of an image, in index order
RelocNames(place, nrela) ==
    <<"", ".text">>
    \o (IF place = "text" THEN <<".dynstr">> ELSE <<>>)
    \o <<".data">>
    \o (IF place = "data" THEN <<".dynstr">> ELSE <<>>)
    \o <<".strtab", ".symtab">>
    \o (IF place = "symtab" THEN <<".dynstr">> ELSE <<>>)
    \o (IF nrela >= 1 THEN <<".rela.data">> ELSE <<>>)
    \o (IF nrela >= 2 THEN <<".rela.text">> ELSE <<>>)

\* the 0-based index of the section with the given name
IndexIn(names, name) == (CHOOSE i \in 1..Len(names) : names[i] = name) - 1

RelocImageSection(names, name, dflags, tsize) ==
    CASE name = ""        -> DefaultSection
      [] name = ".text"   -> NewSection(".text", "PROGBITS", {"ALLOC", "EXECINSTR"},
                                        ContentRaw(tsize), 0, 0)
      [] name = ".data"   -> NewSection(".data", "PROGBITS", {"ALLOC", "WRITE"},
                                        ContentRaw(8), 0, 0)
      [] name = ".dynstr" -> NewSection(".dynstr", "STRTAB", dflags,
                                        ContentStrtab(<<"libc.so">>), 0, 0)
      [] name = ".strtab" -> NewSection(".strtab", "STRTAB", {}, ContentStrtab(<<>>), 0, 0)
      [] name = ".symtab" ->
            NewSection(".symtab", "SYMTAB", {},
                       ContentSymbols(<<NullSymbol,
                           LinkSymbol("bar", "LOCAL", "OBJECT",
                                      ShSection(IndexIn(names, ".data")), 1),
                           LinkSymbol("_start", "GLOBAL", "FUNC",
                                      ShSection(IndexIn(names, ".text")), 0)>>),
                       IndexIn(names, ".strtab"), 2)
      [] name = ".rela.data" ->
            NewSection(".rela.data", "RELA", {},
                       ContentRelocations(<<Relocation("R_X86_64_64", 1, 0, 5)>>),
                       IndexIn(names, ".symtab"), IndexIn(names, ".data"))
      [] name = ".rela.text" ->
            NewSection(".rela.text", "RELA", {},
                       ContentRelocations(<<Relocation("R_X86_64_64", 2, 0, 3)>>),
                       IndexIn(names, ".symtab"), IndexIn(names, ".text"))

RelocImage(place, dflags, nrela, tsize) ==
    LET names == RelocNames(place, nrela)
    IN  [i \in 1..Len(names) |-> RelocImageSection(names, names[i], dflags, tsize)]

RelocImages ==
    { RelocImage(place, dflags, nrela, tsize) :
        place \in DynstrPlaces, dflags \in {{}, {"ALLOC"}},
        nrela \in 0..2, tsize \in 1..MaxTextSize }

\* the state in which DynamicRelocator::relocate is called on an image
RelocInit ==
    /\ sections \in RelocImages
    /\ header = DefaultHeader
    /\ start = sections
    /\ pre = sections
    /\ ops = <<>>
    /\ IdleSync
    /\ IdleLoader
    /\ link_pc = "image"
    /\ segments = <<>>
    /\ collector = NoCollector
    /\ out_file = NoWritten
    /\ link_hist = NoLinkHist

RelocNext == RelocateImage

RelocSpec == RelocInit /\ [][RelocNext]_vars

HasName(secs, name) == \E i \in 1..Len(secs) : secs[i].name = name

\* the 0-based index of the first section with the given name
NameIndex(secs, name) ==
    (CHOOSE i \in 1..Len(secs) :
        secs[i].name = name /\ \A j \in 1..(i - 1) : secs[j].name # name) - 1

\* the 0-based index of the last ALLOC section, 0 if there is none
LastAlloc(secs) ==
    IF \E i \in 1..Len(secs) : "ALLOC" \in secs[i].flags
    THEN (CHOOSE i \in 1..Len(secs) :
             /\ "ALLOC" \in secs[i].flags
             /\ \A j \in (i + 1)..Len(secs) : "ALLOC" \notin secs[j].flags) - 1
    ELSE 0

\* the names of the sections relocate creates, in the order it creates them
CreatedNames(input) ==
    (IF HasName(input, ".dynstr") THEN <<>> ELSE <<".dynstr">>)
    \o <<".hash", ".dynsym", ".rela.dyn", ".dynamic">>

\* C22: after relocate the created sections follow the last ALLOC input
\* section in the order .dynstr (if it was absent), .hash, .dynsym,
\* .rela.dyn, .dynamic, and .dynsym.link and .dynamic.link are the index of
\* the section named .dynstr and .rela.dyn.link is the index of .dynsym,
\* wherever a .dynstr of the input was
C22_DynamicSectionsPlacedAndLinked ==
    Relocated =>
        LET a       == LastAlloc(pre)
            created == CreatedNames(pre)
        IN  /\ Len(sections) >= a + 1 + Len(created)
            /\ \A k \in 1..Len(created) : At(sections, a + k).name = created[k]
            /\ At(sections, NameIndex(sections, ".dynsym")).link
                  = NameIndex(sections, ".dynstr")
            /\ At(sections, NameIndex(sections, ".rela.dyn")).link
                  = NameIndex(sections, ".dynsym")
            /\ At(sections, NameIndex(sections, ".dynamic")).link
                  = NameIndex(sections, ".dynstr")

-----------------------------------------------------------------------------
(* C23: the RELA sections into_elf appends *)

\* into_elf returned and main went on
IntoElfDone == link_hist.op = "into_elf" /\ link_pc = "image"

\* the 0-based indices of the RELA sections of secs whose info is b
RelaFor(secs, b) ==
    {i \in 0..(Len(secs) - 1) : At(secs, i).shtype = "RELA" /\ At(secs, i).info = b}

\* the bucket with 0-based index b received a relocation during merging
ReceivedRelocation(b) ==
    b \in DOMAIN collector.relocs /\ Len(collector.relocs[b]) > 0

\* C23: into_elf appends a .rela<name> section for exactly the buckets that
\* received at least one relocation, none for a bucket whose objects had no
\* relocations; each has link = index of .symtab and info = its bucket
C23_RelaSectionsForRelocatedBuckets ==
    IntoElfDone =>
        /\ \A b \in 0..(Len(pre) - 1) :
              (RelaFor(sections, b) # {}) <=> ReceivedRelocation(b)
        /\ \A i \in 0..(Len(sections) - 1) :
              At(sections, i).shtype = "RELA" =>
                 /\ At(sections, i).info < Len(pre)
                 /\ At(sections, i).name = RelaName(At(pre, At(sections, i).info).name)
                 /\ At(sections, i).link = NameIndex(sections, ".symtab")

-----------------------------------------------------------------------------
(* C24: the compatibility pass on images whose RELA sections link to symtabs *)

\* number of symbols a symbol table holds behind its null symbol
MaxCompatSyms == 3

\* the symbols the tables are made of: SECTION symbols of .text and .data,
\* a local, and globals of which two have the same value
CompatPool ==
    {LinkSymbol("", "LOCAL", "SECTION", ShSection(1), 4),
     LinkSymbol("", "LOCAL", "SECTION", ShSection(2), 0),
     LinkSymbol("bar", "LOCAL", "OBJECT", ShSection(2), 1),
     LinkSymbol("foo", "GLOBAL", "FUNC", ShSection(1), 2),
     LinkSymbol("ext", "GLOBAL", "NOTYPE", ShUndefined, 2),
     LinkSymbol("_start", "GLOBAL", "FUNC", ShSection(1), 0)}

\* the tables: the null symbol and MaxCompatSyms different symbols in any order
CompatTables ==
    { <<NullSymbol>> \o t :
        t \in { q \in [1..MaxCompatSyms -> CompatPool] :
                  \A a, b \in 1..MaxCompatSyms : a # b => q[a] # q[b] } }

\* one relocation per symbol of the table
RelocsOn(syms, base) ==
    [k \in 1..Len(syms) |-> Relocation("R_X86_64_64", k - 1, base + k, 10 * k)]

\* [null, .text, .data, .strtab, .symtab, .rela.text, a second table, .rela.data]
CompatImageOf(syms, shtype2) ==
    LET syms2 == <<NullSymbol, LinkSymbol("", "LOCAL", "SECTION", ShSection(2), 8),
                   LinkSymbol("foo", "GLOBAL", "FUNC", ShSection(1), 2)>>
    IN  <<DefaultSection,
          NewSection(".text", "PROGBITS", {"ALLOC", "EXECINSTR"}, ContentRaw(8), 0, 0),
          NewSection(".data", "PROGBITS", {"ALLOC", "WRITE"}, ContentRaw(8), 0, 0),
          NewSection(".strtab", "STRTAB", {}, ContentStrtab(<<>>), 0, 0),
          NewSection(".symtab", "SYMTAB", {}, ContentSymbols(syms), 3, 1),
          NewSection(".rela.text", "RELA", {}, ContentRelocations(RelocsOn(syms, 0)), 4, 1),
          NewSection(IF shtype2 = "SYMTAB" THEN ".symtab2" ELSE ".dynsym", shtype2, {},
                     ContentSymbols(syms2), 3, 1),
          NewSection(".rela.data", "RELA", {}, ContentRelocations(RelocsOn(syms2, 100)), 6, 2)>>

CompatImages ==
    { CompatImageOf(syms, shtype2) : syms \in CompatTables, shtype2 \in {"SYMTAB", "DYNSYM"} }

\* the state in which make_symtab_gnuld_compat is called on an image
CompatInit ==
    /\ sections \in CompatImages
    /\ header = DefaultHeader
    /\ start = sections
    /\ pre = sections
    /\ ops = <<>>
    /\ IdleSync
    /\ IdleLoader
    /\ link_pc = "relocated"
    /\ segments = <<>>
    /\ collector = NoCollector
    /\ out_file = NoWritten
    /\ link_hist = NoLinkHist

CompatNext == CompatImage

CompatSpec == CompatInit /\ [][CompatNext]_vars

\* make_symtab_gnuld_compat returned
Compatted == link_hist.op = "make_symtab_gnuld_compat" /\ link_pc = "built"

\* the 0-based indices of the RELA sections of secs linked to a SYMTAB
RelaOnSymtab(secs) ==
    {k \in 0..(Len(secs) - 1) :
        /\ At(secs, k).shtype = "RELA"
        /\ At(secs, k).link < Len(secs)
        /\ At(secs, At(secs, k).link).shtype = "SYMTAB"}

\* relocation new of the rewritten section stands for relocation old: same
\* place and type; a target of type SECTION for section k with value v became
\* the fresh SECTION symbol at index k with v added to the addend, any other
\* target s is found at the new index, behind the fresh symbols
SameSymbolTarget(old, new, osyms, nsyms, n) ==
    LET s == osyms[old.sym + 1]
    IN  /\ new.addr = old.addr
        /\ new.rtype = old.rtype
        /\ new.sym < Len(nsyms)
        /\ IF s.stype = "SECTION"
           THEN /\ new.sym = s.shndx.index
                /\ nsyms[new.sym + 1] = SectionSymbol(s.shndx.index)
                /\ new.addend = old.addend + s.value
           ELSE /\ new.sym >= n
                /\ nsyms[new.sym + 1] = s
                /\ new.addend = old.addend

\* C24: after the compatibility pass every relocation of a RELA section
\* linked to a SYMTAB refers to the symbol it referred to before: a
\* non-SECTION symbol at its new index, a SECTION symbol of section k with
\* value v as the fresh SECTION symbol at index k with the addend increased
\* by v; relocations of sections linked to another table are rewritten by
\* that table alone, and those linked to no SYMTAB are unchanged
C24_RelocationsFollowSymbols ==
    Compatted =>
        /\ Len(sections) = Len(pre)
        /\ \A k \in RelaOnSymtab(pre) :
              LET olds  == At(pre, k).content.rels
                  news  == At(sections, k).content.rels
                  osyms == At(pre, At(pre, k).link).content.syms
                  nsyms == At(sections, At(pre, k).link).content.syms
              IN  /\ At(sections, k).link = At(pre, k).link
                  /\ Len(news) = Len(olds)
                  /\ \A j \in 1..Len(olds) :
                        SameSymbolTarget(olds[j], news[j], osyms, nsyms, Len(pre))
                  /\ \A i, j \in 1..Len(olds) :
                        (olds[i].sym # olds[j].sym
                         /\ osyms[olds[i].sym + 1].stype # "SECTION"
                         /\ osyms[olds[j].sym + 1].stype # "SECTION")
                           => news[i].sym # news[j].sym
        /\ \A k \in 0..(Len(pre) - 1) :
              (At(pre, k).shtype = "RELA" /\ k \notin RelaOnSymtab(pre))
                 => At(sections, k).content = At(pre, k).content

\* the pass ran on a table with a SECTION symbol of non-zero value, a local
\* and two globals of equal value, all of them relocation targets, next to
\* a second SYMTAB with its own RELA section
C24_Witness ==
    /\ Compatted
    /\ At(pre, 6).shtype = "SYMTAB"
    /\ LET osyms == At(pre, 4).content.syms
       IN  /\ \E k \in 1..Len(osyms) : osyms[k].stype = "SECTION" /\ osyms[k].value > 0
           /\ \E a, b \in 1..Len(osyms) :
                 /\ a < b
                 /\ osyms[a].bind = "GLOBAL" /\ osyms[b].bind = "GLOBAL"
                 /\ osyms[a].value = osyms[b].value
    /\ At(sections, 5).content.rels # At(pre, 5).content.rels
    /\ At(sections, 7).content.rels # At(pre, 7).content.rels

-----------------------------------------------------------------------------
(* C25: the flags of the LOAD segments *)

\* the indices of the ALLOC sections whose address range lies in seg
LyingIn(seg) ==
    {i \in 2..Len(sections) :
        Alloc(sections[i]) /\ InAddrRange(sections[i].addr, sections[i].size, seg)}

\* C25: every LOAD segment segments() returns is readable, executable
\* exactly when an ALLOC section lying in it has EXECINSTR, and writable
\* exactly when an ALLOC section lying in it, NOBITS or not, has WRITE
C25_LoadSegmentFlags ==
    link_pc = "segmented" =>
        \A k \in LoadIndices :
            /\ "READABLE" \in segments[k].flags
            /\ "EXECUTABLE" \in segments[k].flags
                  <=> \E i \in LyingIn(segments[k]) : "EXECINSTR" \in sections[i].flags
            /\ "WRITABLE" \in segments[k].flags
                  <=> \E i \in LyingIn(segments[k]) : "WRITE" \in sections[i].flags

-----------------------------------------------------------------------------
(* C26: the links of the sections relocate neither creates nor deletes *)

\* the 0-based indices of the sections of the input that relocate keeps and
\* that refer to another section of the input
LinkedSurvivors(input) ==
    {i \in 0..(Len(input) - 1) :
        /\ At(input, i).shtype # "RELA"
        /\ At(input, i).link > 0
        /\ At(input, i).link < Len(input)}

\* C26: after relocate the link of every section of the input that was not
\* deleted (.symtab's link to .strtab in particular) refers to the section
\* it referred to before the call
C26_LinksFollowSections ==
    Relocated =>
        \A i \in LinkedSurvivors(pre) :
            LET sec == At(pre, i)
                now == NameIndex(sections, sec.name)
            IN  /\ HasName(sections, sec.name)
                /\ At(sections, now).link < Len(sections)
                /\ At(sections, At(sections, now).link).name = At(pre, sec.link).name

-----------------------------------------------------------------------------
(* C27: the relocations collect stores for a bucket *)

\* C27: the relocations of an object merged into a bucket at offset nu_off
\* are stored for that bucket with addr = original addr + nu_off, their
\* position inside the bucket
C27_RelocAddrInBucket ==
    (link_hist.op = "merge" /\ ~link_hist.call.panic) =>
        LET rela   == link_hist.call.rela
            shndx  == link_hist.call.nu_shndx
            stored == IF shndx \in DOMAIN collector.relocs
                      THEN collector.relocs[shndx] ELSE <<>>
            base   == Len(stored) - Len(rela)
        IN  /\ base >= 0
            /\ \A k \in 1..Len(rela) :
                  stored[base + k] =
                     [rela[k] EXCEPT !.addr = @ + link_hist.call.nu_off]

-----------------------------------------------------------------------------
(* Elf::load and Elf::load_all *)

\* number of sections of a container that is loaded (null section included)
NumLoadSecs == 4

LoadNames  == <<"", ".bss", ".strtab", ".symtab", ".text", ".dynamic">>
LoadShtype == <<"NULL", "NOBITS", "STRTAB", "SYMTAB", "PROGBITS", "DYNAMIC">>

\* the size the section headers of the file give
FileSecSize == 8

\* containers as Elf::from_reader returns them: every section Unloaded, with
\* the header and name read from the file; link holds whatever the file
\* held: 0, the section's own index, any other index, an index past the end
LoadContainers ==
    { [i \in 1..NumLoadSecs |->
         [NewSection(LoadNames[i], LoadShtype[i], {}, ContentUnloaded,
                     IF i = 1 THEN 0 ELSE f[i - 1], 0)
            EXCEPT !.size = FileSecSize, !.offset = FileSecSize * i]]
      : f \in [1..(NumLoadSecs - 1) -> 0..NumLoadSecs] }

\* what Section::from_reader makes of the bytes, by section type
ReadContent(sec) ==
    CASE sec.shtype = "NOBITS"               -> ContentNone
      [] sec.shtype = "STRTAB"               -> ContentStrtab(<<>>)
      [] sec.shtype = "RELA"                 -> ContentRelocs(0)
      [] sec.shtype \in {"SYMTAB", "DYNSYM"} -> ContentSymbols(<<>>)
      [] sec.shtype = "DYNAMIC"              -> ContentDynamic(<<>>)
      [] OTHER                               -> ContentRaw(sec.size)

\* mutant of FromReader: a NOBITS section is left Unloaded
FromReaderSkipNobits(sec) ==
    IF sec.content.kind # "Unloaded" \/ sec.shtype = "NOBITS"
    THEN {[err |-> FALSE, sec |-> sec]}
    ELSE {[err |-> TRUE, sec |-> sec],
          [err |-> FALSE, sec |-> [sec EXCEPT !.content = ReadContent(sec)]]}

\* Section::from_reader(io, linked, eh): the set of outcomes [err, sec]. A
\* section that is not Unloaded is left alone; for an Unloaded one the seek,
\* the read or the parser (which reads names through the linked section) may
\* fail, or the content of the section's type is set
FromReader(sec) ==
    IF sec.content.kind # "Unloaded"
    THEN {[err |-> FALSE, sec |-> sec]}
    ELSE {[err |-> TRUE, sec |-> sec],
          [err |-> FALSE, sec |-> [sec EXCEPT !.content = ReadContent(sec)]]}

\* the frame of a call load(i): `sec` taken out of the container, and where
\* the call stands: at its start, in its recursive call, before from_reader
LoadFrame(secs, i) == [i |-> i, sec |-> At(secs, i), at |-> "start"]

\* mem::replace(&mut self.sections[i], Section::default())
Taken(secs, i) == [secs EXCEPT ![i + 1] = DefaultSection]

LoadInit ==
    /\ sections \in LoadContainers
    /\ header = DefaultHeader
    /\ start = sections
    /\ pre = sections
    /\ ops = <<>>
    /\ sync_pc = "idle" /\ dirty = <<>> /\ batch = <<>> /\ sync_hist = NoSyncHist
    /\ IdleLoad
    /\ IdleLoader
    /\ IdleLink

\* a call elf.load(i, io) with a valid index
ElfLoadCall ==
    /\ load_pc = "idle"
    /\ \E i \in 0..(Len(sections) - 1) :
          /\ load_stack' = <<LoadFrame(sections, i)>>
          /\ sections' = Taken(sections, i)
    /\ load_pc' = "load"
    /\ pre' = sections
    /\ UNCHANGED <<header, start, ops, load_next>>
    /\ UNCHANGED <<sync_pc, dirty, batch, sync_hist>>
    /\ UNCHANGED loaderVars
    /\ UNCHANGED linkVars

\* a call elf.load_all(io)
ElfLoadAllCall ==
    /\ load_pc = "idle"
    /\ load_pc' = "load_all"
    /\ load_next' = 0
    /\ pre' = sections
    /\ UNCHANGED <<sections, header, start, ops, load_stack>>
    /\ UNCHANGED <<sync_pc, dirty, batch, sync_hist>>
    /\ UNCHANGED loaderVars
    /\ UNCHANGED linkVars

\* load_all, `for i in 0..self.sections.len()`: the next self.load(i, io)?
\* or, behind the last section, Ok(())
ElfLoadAllNext ==
    /\ load_pc = "load_all"
    /\ load_stack = <<>>
    /\ IF load_next < Len(sections)
       THEN /\ load_stack' = <<LoadFrame(sections, load_next)>>
            /\ sections' = Taken(sections, load_next)
            /\ load_next' = load_next + 1
            /\ load_pc' = "load_all"
       ELSE /\ load_pc' = "ok"
            /\ UNCHANGED <<sections, load_stack, load_next>>
    /\ UNCHANGED <<header, start, pre, ops>>
    /\ UNCHANGED <<sync_pc, dirty, batch, sync_hist>>
    /\ UNCHANGED loaderVars
    /\ UNCHANGED linkVars

\* load, lines 100-108: without a linked section go on to from_reader, else
\* call self.load(link, io)
ElfLoadLink ==
    /\ load_stack # <<>>
    /\ LET n   == Len(load_stack)
           top == load_stack[n]
       IN  /\ top.at = "start"
           /\ IF HasLinked(top.sec, Len(sections))
              THEN /\ load_stack' = Append([load_stack EXCEPT ![n].at = "called"],
                                           LoadFrame(sections, top.sec.link))
                   /\ sections' = Taken(sections, top.sec.link)
              ELSE /\ load_stack' = [load_stack EXCEPT ![n].at = "read"]
                   /\ UNCHANGED sections
    /\ UNCHANGED <<header, start, pre, ops, load_pc, load_next>>
    /\ UNCHANGED <<sync_pc, dirty, batch, sync_hist>>
    /\ UNCHANGED loaderVars
    /\ UNCHANGED linkVars

\* load, lines 109-113: sec.from_reader(io, linked, &self.header)?, then the
\* section is put back and the call returns Ok; an error returns through
\* every pending call (`self.load(link, io)?`) without putting anything back
ElfLoadRead ==
    /\ load_stack # <<>>
    /\ LET n   == Len(load_stack)
           top == load_stack[n]
       IN  /\ top.at = "read"
           /\ \E r \in FromReader(top.sec) :
                 IF r.err
                 THEN /\ load_pc' = "error"
                      /\ load_stack' = <<>>
                      /\ UNCHANGED sections
                 ELSE /\ sections' = [sections EXCEPT ![top.i + 1] = r.sec]
                      /\ load_stack' =
                            IF n = 1 THEN <<>>
                            ELSE [SubSeq(load_stack, 1, n - 1) EXCEPT ![n - 1].at = "read"]
                      /\ load_pc' = IF n = 1 /\ load_pc = "load" THEN "ok" ELSE load_pc
    /\ UNCHANGED <<header, start, pre, ops, load_next>>
    /\ UNCHANGED <<sync_pc, dirty, batch, sync_hist>>
    /\ UNCHANGED loaderVars
    /\ UNCHANGED linkVars

\* the steps of a call that is under way
ElfLoadStep == ElfLoadAllNext \/ ElfLoadLink \/ ElfLoadRead

LoadNext == ElfLoadCall \/ ElfLoadAllCall \/ ElfLoadAllNext \/ ElfLoadLink \/ ElfLoadRead

LoadSpec == LoadInit /\ [][LoadNext]_vars

\* a call of load or load_all runs on: it waits for nothing but its reads
LoadFairSpec == LoadSpec /\ WF_vars(ElfLoadStep)

LoadRunning  == load_pc \in {"load", "load_all"}
LoadReturned == load_pc \in {"ok", "error"}

\* the section keeps the name and header it had in the container
SameHeader(now, before) == [now EXCEPT !.content = before.content] = before

LoadAllOk == load_pc = "ok" /\ load_next = Len(sections) /\ Len(sections) > 0

\* C28: load and load_all return for every configuration of link fields,
\* a section linked to itself and sections linked in a cycle included; after
\* a successful load_all no section is Unloaded and every section has the
\* header and name it had
C28_LoadTerminates ==
    /\ LoadRunning ~> LoadReturned
    /\ [](LoadAllOk =>
            /\ Len(sections) = Len(start)
            /\ \A k \in 1..Len(sections) :
                  /\ sections[k].content.kind # "Unloaded"
                  /\ SameHeader(sections[k], start[k]))

\* load_all returned Ok on a container with a section linked to itself and
\* two sections linked to each other
C28_Witness ==
    /\ LoadAllOk
    /\ \E a \in 1..(Len(start) - 1) : At(start, a).link = a
    /\ \E a, b \in 1..(Len(start) - 1) :
          a # b /\ At(start, a).link = b /\ At(start, b).link = a

\* C29: when load returns an error the container holds every section it
\* held before the call, each with its name, header and content variant; no
\* section was replaced by an empty default section
C29_ErrorKeepsSections ==
    load_pc = "error" =>
        /\ Len(sections) = Len(pre)
        /\ \A k \in 1..Len(sections) :
              /\ SameHeader(sections[k], pre[k])
              /\ sections[k].content.kind = pre[k].content.kind

-----------------------------------------------------------------------------
(* C30: the container after Elf::to_writer *)

\* C30: to_writer leaves the section sequence alone: after it returned Ok
\* the container holds the sections it held before the call, in the same
\* order, and the shnum it wrote is the number of sections in the container
C30_WriterKeepsSections ==
    (link_hist.op = "to_writer" /\ out_file.res = "ok") =>
        /\ sections = pre
        /\ header.shstrndx > 0 => header.shnum = Len(sections)

====
